---- MODULE Spec2Model ----
(***************************************************************************)
(* The credential-renewal coordinator of snoo-rs: Authenticator (the       *)
(* strategy slot `auth_flow` and the cached Shared<BearerTokenFuture>      *)
(* `bearer_token`, each behind a Mutex), BearerTokenFuture, and the        *)
(* callers of Authenticator::bearer_token.  The repository holds two       *)
(* drafts of the renewal policy (src/auth/authentication.rs and            *)
(* src/reddit/auth/authentication.rs); `draft` says which one a behaviour  *)
(* runs.                                                                   *)
(***************************************************************************)
EXTENDS Integers, Sequences, FiniteSets, TLC

\* ---------------------------------------------------------------- bounds
NumCallers == 2
MaxFutures == 3
MaxTime == 1
MaxTtl == 1
MaxPolls == 4
MaxResolution == 3
NumScopes == 7
MaxStrings == 2
MaxChunks == 2
MaxCalls == 2

Callers == 1..NumCallers
Drafts == {"auth", "reddit"}

VARIABLES
    draft,          \* which draft of Authenticator is compiled
    constructed,    \* "Ok" | "MissingAuthFlow": the Result of Authenticator::new
    arg_flow,       \* the Option<AuthFlow> given to Authenticator::new
    arg_token,      \* the Option<BearerToken> given to Authenticator::new
    auth_flow,      \* Authenticator.auth_flow: the Option<AuthFlow> in the slot
    bearer_token,   \* Authenticator.bearer_token: index in futs of the cached handle
    auth_flow_lock,     \* holder of the auth_flow Mutex (0 = free)
    bearer_token_lock,  \* holder of the bearer_token Mutex (0 = free)
    futs,           \* every BearerTokenFuture created so far, with its Shared cell
    now,            \* the clock read by Instant::now() / elapsed()
    pc,             \* each caller's position in Authenticator::bearer_token
    local,          \* each caller's locals: renew and the AuthFlow taken from the slot
    held,           \* the handles (indices in futs) callers were given clones of
    log,            \* what the current / latest bearer_token call observed and did
    startedFrom,    \* per handle: exchanges started by calls that found it cached
    prev,           \* the call completed before the one in log: its caller and result
    endpoint,       \* the token endpoint: free to answer anything, or set to one answer
    fut,            \* a BearerTokenFuture that is polled directly, not through Shared
    scope_set,      \* a ScopeSet
    builder,        \* an AuthorizationUrlBuilder
    resolution,     \* how many steps of `now` make one second
    result          \* what the latest call on fut, scope_set, builder or a token returned

\* The values of src/auth that are used on their own, outside an Authenticator.
lib == <<fut, scope_set, builder, resolution, result>>

vars == <<draft, constructed, arg_flow, arg_token, auth_flow, bearer_token,
          auth_flow_lock, bearer_token_lock, futs, now, pc, local, held, log,
          startedFrom, prev, endpoint, lib>>

\* ------------------------------------------------------------ value types
\* Option<AuthFlow>: kind "None" is Option::None; token is RefreshToken's String.
NoFlow == [kind |-> "None", token |-> 0]
Code == [kind |-> "Code", token |-> 0]
Password == [kind |-> "Password", token |-> 0]
RefreshToken(t) == [kind |-> "RefreshToken", token |-> t]

is_password(flow) == flow.kind = "Password"

\* Option<BearerToken>: present = FALSE is Option::None; refresh_token 0 is None.
NoToken == [present |-> FALSE, access_token |-> 0, created_at |-> 0,
            expires_in |-> 0, refresh_token |-> 0]
BearerToken(access, created, ttl, refresh) ==
    [present |-> TRUE, access_token |-> access, created_at |-> created,
     expires_in |-> ttl, refresh_token |-> refresh]

\* (variant: the boundary elapsed = expires_in does not count as expired)
is_expiredStrict(token, t) ==
    (t - token.created_at) \div resolution > token.expires_in

\* self.created_at.elapsed().as_secs() >= (self.expires_in as u64), at time t:
\* as_secs is the whole seconds of the Duration.
is_expired(token, t) ==
    (t - token.created_at) \div resolution >= token.expires_in
is_renewable(token) == token.refresh_token # 0

\* The Shared cell: tag "None" while no clone has polled the future to completion.
\* status is the u16 carried by SnooErrorKind::UnsuccessfulResponse, else 0.
Unresolved == [tag |-> "None", token |-> NoToken, error |-> "None", status |-> 0]
ResolvedOk(token) == [tag |-> "Ok", token |-> token, error |-> "None", status |-> 0]
ResolvedErr(e) == [tag |-> "Err", token |-> NoToken, error |-> e, status |-> 0]
UnsuccessfulResponse(status) ==
    [tag |-> "Err", token |-> NoToken, error |-> "UnsuccessfulResponse",
     status |-> status]

\* StatusCode::is_success: 2xx
is_success(status) == status \in 200..299

\* What the token endpoint can answer to one request: a transport failure, a
\* non-2xx status, a body that is no BearerToken, or a BearerToken.
Responses ==
    { [transport_ok |-> FALSE, status |-> 0, parses |-> FALSE,
       expires_in |-> 0, refreshable |-> FALSE],
      [transport_ok |-> TRUE, status |-> 401, parses |-> FALSE,
       expires_in |-> 0, refreshable |-> FALSE],
      [transport_ok |-> TRUE, status |-> 200, parses |-> FALSE,
       expires_in |-> 0, refreshable |-> FALSE] }
    \cup
    { [transport_ok |-> TRUE, status |-> 200, parses |-> TRUE,
       expires_in |-> ttl, refreshable |-> r] : ttl \in 0..MaxTtl, r \in BOOLEAN }

\* Every shape of answer: the transport result, the status and the body vary
\* independently (a 401 with a well-formed body, a 200 with a malformed one, a
\* transport error whatever was on the wire).
Statuses == {200, 204, 401, 500}
AllResponses ==
    { [transport_ok |-> tr, status |-> st, parses |-> ps,
       expires_in |-> ttl, refreshable |-> r] :
          tr \in BOOLEAN, st \in Statuses, ps \in BOOLEAN,
          ttl \in 0..MaxTtl, r \in BOOLEAN }

\* The token endpoint is outside the program: left free it answers each request
\* with any of Responses; scripted it answers every request with one response.
FreeEndpoint ==
    [scripted |-> FALSE,
     response |-> [transport_ok |-> FALSE, status |-> 0, parses |-> FALSE,
                   expires_in |-> 0, refreshable |-> FALSE]]
ScriptedEndpoint(r) == [scripted |-> TRUE, response |-> r]
Answers(e) == IF e.scripted THEN {e.response} ELSE Responses

\* BearerTokenFuture::Fixed(Some(token)), wrapped by .shared()
FixedFuture(token) ==
    [variant |-> "Fixed", fixed |-> token, error |-> "None", future |-> FALSE,
     flow |-> NoFlow, executed |-> FALSE, shared |-> Unresolved,
     panicked |-> FALSE]

\* serde(rename_all = "snake_case", tag = "grant_type") on AuthFlow: the value
\* of grant_type is the variant's name in snake case.
snake_case ==
    "Code" :> "code" @@ "Password" :> "password" @@ "RefreshToken" :> "refresh_token"

\* serde_urlencoded::to_string(auth_flow) with the derived Serialize of AuthFlow:
\* a struct variant is written as grant_type and then its fields in the order
\* of their declaration; the newtype variant RefreshToken(String) holds a string,
\* which has no fields to put the tag with, and is an Err.
\* keys are the parameters of the body, refresh_token the token it carries.
form(flow) ==
    CASE flow.kind = "Code" ->
           [ok |-> TRUE, grant_type |-> snake_case[flow.kind], refresh_token |-> 0,
            keys |-> <<"grant_type", "code", "redirect_uri", "scope">>]
      [] flow.kind = "Password" ->
           [ok |-> TRUE, grant_type |-> snake_case[flow.kind], refresh_token |-> 0,
            keys |-> <<"grant_type", "password", "username", "scope">>]
      [] OTHER ->
           [ok |-> FALSE, grant_type |-> "None", refresh_token |-> 0, keys |-> <<>>]

\* HttpRequestBuilder::form: whether serde_urlencoded::to_string(body) is Ok.
FormResults(flow) == {form(flow).ok}

\* (variant: the request is executed whether or not its body serialized)
BearerTokenFutureNewExecutes(flow, serialized) ==
    [variant |-> "Future", fixed |-> NoToken,
     error |-> "None",
     future |-> TRUE,
     flow |-> flow, executed |-> TRUE, shared |-> Unresolved,
     panicked |-> FALSE]

\* BearerTokenFuture::new: the request is built from the flow; if the form body
\* serializes the request is executed (future: Some), else the error is kept.
\* flow and executed record the call; poll does not read them.
BearerTokenFutureNew(flow, serialized) ==
    [variant |-> "Future", fixed |-> NoToken,
     error |-> IF serialized THEN "None" ELSE "InvalidRequest",
     future |-> serialized,
     flow |-> flow, executed |-> serialized, shared |-> Unresolved,
     panicked |-> FALSE]

\* Shared::peek on the cached handle
peek(f) == f.shared

\* ------------------------------------------------------- Scope, ScopeSet
\* A string is a sequence of characters; a character is a one-letter string.
\* enum Scope, in the order of its declaration: derive(Ord) compares by it.
ScopeOrder ==
    <<"All", "Account", "Creddits", "Edit", "Flair",
      "History", "Identity", "LiveManage", "ModConfig", "ModContributors",
      "ModFlair", "ModLog", "ModMail", "ModOthers", "ModPosts",
      "ModSelf", "ModTraffic", "ModWiki", "MySubreddits", "PrivateMessages",
      "Read", "Report", "Save", "StructuredStyles", "Submit",
      "Subscribe", "Vote", "WikiEdit", "WikiRead">>

\* <Scope as Display>::fmt
to_string ==
    "All" :> <<"*">> @@
    "Account" :> <<"a", "c", "c", "o", "u", "n", "t">> @@
    "Creddits" :> <<"c", "r", "e", "d", "d", "i", "t", "s">> @@
    "Edit" :> <<"e", "d", "i", "t">> @@
    "Flair" :> <<"f", "l", "a", "i", "r">> @@
    "History" :> <<"h", "i", "s", "t", "o", "r", "y">> @@
    "Identity" :> <<"i", "d", "e", "n", "t", "i", "t", "y">> @@
    "LiveManage" :> <<"l", "i", "v", "e", "m", "a", "n", "a", "g", "e">> @@
    "ModConfig" :> <<"m", "o", "d", "c", "o", "n", "f", "i", "g">> @@
    "ModContributors" :> <<"m", "o", "d", "c", "o", "n", "t", "r", "i", "b", "u", "t", "o", "r", "s">> @@
    "ModFlair" :> <<"m", "o", "d", "f", "l", "a", "i", "r">> @@
    "ModLog" :> <<"m", "o", "d", "l", "o", "g">> @@
    "ModMail" :> <<"m", "o", "d", "m", "a", "i", "l">> @@
    "ModOthers" :> <<"m", "o", "d", "o", "t", "h", "e", "r", "s">> @@
    "ModPosts" :> <<"m", "o", "d", "p", "o", "s", "t", "s">> @@
    "ModSelf" :> <<"m", "o", "d", "s", "e", "l", "f">> @@
    "ModTraffic" :> <<"m", "o", "d", "t", "r", "a", "f", "f", "i", "c">> @@
    "ModWiki" :> <<"m", "o", "d", "w", "i", "k", "i">> @@
    "MySubreddits" :> <<"m", "y", "s", "u", "b", "r", "e", "d", "d", "i", "t", "s">> @@
    "PrivateMessages" :> <<"p", "r", "i", "v", "a", "t", "e", "m", "e", "s", "s", "a", "g", "e", "s">> @@
    "Read" :> <<"r", "e", "a", "d">> @@
    "Report" :> <<"r", "e", "p", "o", "r", "t">> @@
    "Save" :> <<"s", "a", "v", "e">> @@
    "StructuredStyles" :> <<"s", "t", "r", "u", "c", "t", "u", "r", "e", "d", "s", "t", "y", "l", "e", "s">> @@
    "Submit" :> <<"s", "u", "b", "m", "i", "t">> @@
    "Subscribe" :> <<"s", "u", "b", "s", "c", "r", "i", "b", "e">> @@
    "Vote" :> <<"v", "o", "t", "e">> @@
    "WikiEdit" :> <<"w", "i", "k", "i", "e", "d", "i", "t">> @@
    "WikiRead" :> <<"w", "i", "k", "i", "r", "e", "a", "d">>

\* The match of <Scope as FromStr>::from_str: the strings it knows.
from_str_table ==
    <<<<<<"*">>, "All">>,
      <<<<"a", "c", "c", "o", "u", "n", "t">>, "Account">>,
      <<<<"c", "r", "e", "d", "d", "i", "t", "s">>, "Creddits">>,
      <<<<"e", "d", "i", "t">>, "Edit">>,
      <<<<"f", "l", "a", "i", "r">>, "Flair">>,
      <<<<"h", "i", "s", "t", "o", "r", "y">>, "History">>,
      <<<<"i", "d", "e", "n", "t", "i", "t", "y">>, "Identity">>,
      <<<<"l", "i", "v", "e", "m", "a", "n", "a", "g", "e">>, "LiveManage">>,
      <<<<"m", "o", "d", "c", "o", "n", "f", "i", "g">>, "ModConfig">>,
      <<<<"m", "o", "d", "c", "o", "n", "t", "r", "i", "b", "u", "t", "o", "r", "s">>, "ModContributors">>,
      <<<<"m", "o", "d", "f", "l", "a", "i", "r">>, "ModFlair">>,
      <<<<"m", "o", "d", "l", "o", "g">>, "ModLog">>,
      <<<<"m", "o", "d", "m", "a", "i", "l">>, "ModMail">>,
      <<<<"m", "o", "d", "o", "t", "h", "e", "r", "s">>, "ModOthers">>,
      <<<<"m", "o", "d", "p", "o", "s", "t", "s">>, "ModPosts">>,
      <<<<"m", "o", "d", "s", "e", "l", "f">>, "ModSelf">>,
      <<<<"m", "o", "d", "t", "r", "a", "f", "f", "i", "c">>, "ModTraffic">>,
      <<<<"m", "o", "d", "w", "i", "k", "i">>, "ModWiki">>,
      <<<<"m", "y", "s", "u", "b", "r", "e", "d", "d", "i", "t", "s">>, "MySubreddits">>,
      <<<<"p", "r", "i", "v", "a", "t", "e", "m", "e", "s", "s", "a", "g", "e", "s">>, "PrivateMessages">>,
      <<<<"r", "e", "a", "d">>, "Read">>,
      <<<<"r", "e", "p", "o", "r", "t">>, "Report">>,
      <<<<"s", "a", "v", "e">>, "Save">>,
      <<<<"s", "t", "r", "u", "c", "t", "u", "r", "e", "d", "s", "t", "y", "l", "e", "s">>, "StructuredStyles">>,
      <<<<"s", "u", "b", "m", "i", "t">>, "Submit">>,
      <<<<"s", "u", "b", "s", "c", "r", "i", "b", "e">>, "Subscribe">>,
      <<<<"v", "o", "t", "e">>, "Vote">>,
      <<<<"w", "i", "k", "i", "e", "d", "i", "t">>, "WikiEdit">>,
      <<<<"w", "i", "k", "i", "r", "e", "a", "d">>, "WikiRead">>>>

Scope == { ScopeOrder[i] : i \in DOMAIN ScopeOrder }
Ord(scope) == CHOOSE i \in DOMAIN ScopeOrder : ScopeOrder[i] = scope

\* Scope::from_str(s): Ok(scope) for a string of the match, else Err
from_str(s) ==
    IF \E i \in DOMAIN from_str_table : from_str_table[i][1] = s
    THEN [ok |-> TRUE,
          scope |-> from_str_table[CHOOSE i \in DOMAIN from_str_table :
                                       from_str_table[i][1] = s][2]]
    ELSE [ok |-> FALSE, scope |-> "None"]

\* ScopeSet(HashSet<Scope>): the set of its members.
ScopeSetNew == {}
ScopeSetDefault == {"Identity"}

clear(set) == {}
contains(set, scope) == scope \in set

\* (variant: the set is not cleared before All is inserted)
insertNoClear(set, scope) ==
    [set |-> set \cup {scope}, ret |-> scope \notin set]

\* ScopeSet::insert: the set it leaves and the bool it returns
insert(set, scope) ==
    LET cleared == IF scope = "All" THEN clear(set) ELSE set
    IN  [set |-> cleared \cup {scope}, ret |-> scope \notin cleared]

\* ScopeSet::remove and ScopeSet::take; ret is `true`, or Some(scope)
remove(set, scope) == [set |-> set \ {scope}, ret |-> scope \in set]
take(set, scope) == [set |-> set \ {scope}, ret |-> scope \in set]

\* <ScopeSet as FromIterator<Scope>>::from_iter: HashSet::from_iter(iter)
from_iter(iter) == { iter[i] : i \in DOMAIN iter }

\* (variant: the Vec is left in the order the HashSet iterates, here the reverse)
RECURSIVE sortNot(_)
sortNot(set) ==
    IF set = {} THEN <<>>
    ELSE LET m == CHOOSE x \in set : \A y \in set : Ord(x) >= Ord(y)
         IN  <<m>> \o sortNot(set \ {m})

\* self.0.iter().cloned().collect::<Vec<Scope>>() then scope_vec.sort()
RECURSIVE sort(_)
sort(set) ==
    IF set = {} THEN <<>>
    ELSE LET m == CHOOSE x \in set : \A y \in set : Ord(x) <= Ord(y)
         IN  <<m>> \o sort(set \ {m})

\* The fold of <ScopeSet as Serialize>::serialize over the sorted Vec
RECURSIVE fold(_, _)
fold(scope_vec, accumulator) ==
    IF scope_vec = <<>> THEN accumulator
    ELSE fold(Tail(scope_vec),
              (IF accumulator # <<>> THEN Append(accumulator, " ") ELSE accumulator)
                \o to_string[Head(scope_vec)])

serialize(set) == fold(sort(set), <<>>)

\* str::split_whitespace: the maximal runs of non-whitespace characters
RECURSIVE split_whitespace(_)
split_whitespace(v) ==
    IF v = <<>> THEN <<>>
    ELSE IF Head(v) = " " THEN split_whitespace(Tail(v))
    ELSE LET n == IF \E i \in DOMAIN v : v[i] = " "
                  THEN (CHOOSE i \in DOMAIN v :
                           v[i] = " " /\ \A j \in 1..(i - 1) : v[j] # " ") - 1
                  ELSE Len(v)
         IN  <<SubSeq(v, 1, n)>> \o split_whitespace(SubSeq(v, n + 1, Len(v)))

\* (variant: a token that is no scope is skipped)
visit_strLenient(v) ==
    LET tokens == split_whitespace(v)
    IN  [ok |-> TRUE,
         set |-> { from_str(tokens[i]).scope :
                      i \in { j \in DOMAIN tokens : from_str(tokens[j]).ok } }]

\* ScopesVisitor::visit_str: every token is parsed and the scopes are collected
\* into a ScopeSet, or the first Err is the result
visit_str(v) ==
    LET tokens == split_whitespace(v)
    IN  IF \E i \in DOMAIN tokens : ~from_str(tokens[i]).ok
        THEN [ok |-> FALSE, set |-> {}]
        ELSE [ok |-> TRUE,
              set |-> from_iter([i \in DOMAIN tokens |-> from_str(tokens[i]).scope])]

\* BearerToken::matches_scope, on the token's scope field
matches_scope(self_scope, scope) ==
    scope = "All" \/ contains(self_scope, scope) \/ contains(self_scope, "All")

\* ---------------------------------------------------- AuthorizationUrlBuilder
\* An Option<String> is 0 for None, else the number that names the string.
\* AuthorizationUrlBuilder::default()
AuthorizationUrlBuilderDefault ==
    [client_id |-> 0, compact |-> FALSE, duration |-> "Temporary", redirect_uri |-> 0,
     response_type |-> "Code", scope |-> ScopeSetDefault, state |-> 0]

\* AuthorizationUrlBuilder::scope: an empty collection sets the default scope
builder_scope(b, scopes) ==
    [b EXCEPT !.scope = IF from_iter(scopes) = {} THEN ScopeSetDefault
                        ELSE from_iter(scopes)]

\* serde(rename_all = "lowercase") on AuthorizationResponseType and
\* AuthorizationDuration
lowercase ==
    "Code" :> "code" @@ "Token" :> "token" @@
    "Temporary" :> "temporary" @@ "Permanent" :> "permanent" @@ "None" :> "None"

BuildErr(e) ==
    [ok |-> FALSE, error |-> e, endpoint |-> "None", keys |-> <<>>, client_id |-> 0,
     duration |-> "None", redirect_uri |-> 0, response_type |-> "None",
     scope |-> <<>>, state |-> 0]

\* (variant: the duration is sent whatever the response type)
buildAlwaysDuration(b) ==
    IF b.client_id = 0 THEN BuildErr("MissingClientId")
    ELSE IF b.redirect_uri = 0 THEN BuildErr("MissingRedirectUri")
    ELSE IF b.state = 0 THEN BuildErr("MissingState")
    ELSE [ok |-> TRUE, error |-> "None",
          endpoint |-> IF b.compact THEN "AuthorizeCompact" ELSE "Authorize",
          keys |-> <<"client_id", "duration", "redirect_uri", "response_type",
                     "scope", "state">>,
          client_id |-> b.client_id, duration |-> lowercase[b.duration],
          redirect_uri |-> b.redirect_uri,
          response_type |-> lowercase[b.response_type],
          scope |-> serialize(b.scope), state |-> b.state]

\* (variant: the three required fields are looked at in another order)
buildStateFirst(b) ==
    LET duration == IF b.response_type = "Code" THEN b.duration ELSE "None"
    IN  IF b.state = 0 THEN BuildErr("MissingState")
        ELSE IF b.redirect_uri = 0 THEN BuildErr("MissingRedirectUri")
        ELSE IF b.client_id = 0 THEN BuildErr("MissingClientId")
        ELSE [ok |-> TRUE, error |-> "None",
              endpoint |-> IF b.compact THEN "AuthorizeCompact" ELSE "Authorize",
              keys |-> <<"client_id">>
                         \o (IF duration # "None" THEN <<"duration">> ELSE <<>>)
                         \o <<"redirect_uri", "response_type", "scope", "state">>,
              client_id |-> b.client_id, duration |-> lowercase[duration],
              redirect_uri |-> b.redirect_uri,
              response_type |-> lowercase[b.response_type],
              scope |-> serialize(b.scope), state |-> b.state]

\* AuthorizationUrlBuilder::build: the Err, or the endpoint and the query
\* parameters of the URL: keys are the parameters in the order they are written
\* (serde_urlencoded leaves out a None), the other fields are their values.
build(b) ==
    LET resource == IF b.compact THEN "AuthorizeCompact" ELSE "Authorize"
        duration == IF b.response_type = "Code" THEN b.duration ELSE "None"
    IN  IF b.client_id = 0 THEN BuildErr("MissingClientId")
        ELSE IF b.redirect_uri = 0 THEN BuildErr("MissingRedirectUri")
        ELSE IF b.state = 0 THEN BuildErr("MissingState")
        ELSE [ok |-> TRUE, error |-> "None", endpoint |-> resource,
              keys |-> <<"client_id">>
                         \o (IF duration # "None" THEN <<"duration">> ELSE <<>>)
                         \o <<"redirect_uri", "response_type", "scope", "state">>,
              client_id |-> b.client_id, duration |-> lowercase[duration],
              redirect_uri |-> b.redirect_uri,
              response_type |-> lowercase[b.response_type],
              scope |-> serialize(b.scope), state |-> b.state]

\* ------------------------------------------------------------ the policy
\* Variants of the match with one plausible slip each; the claims below are
\* checked to tell each of them from the match as written.
\* the forced arm tried before the refresh arm
AuthMatchForceFirst(p, slot, renew, t) ==
    IF slot.kind # "None" /\ renew
    THEN "stored"
    ELSE IF p.tag = "Ok" /\ is_expired(p.token, t) /\ is_renewable(p.token)
    THEN "refresh"
    ELSE IF p.tag = "Ok" /\ slot.kind # "None"
              /\ is_expired(p.token, t) /\ ~is_renewable(p.token)
    THEN "stored"
    ELSE "none"

\* no forced arm
AuthMatchNoForce(p, slot, renew, t) ==
    IF p.tag = "Ok" /\ is_expired(p.token, t) /\ is_renewable(p.token)
    THEN "refresh"
    ELSE IF p.tag = "Ok" /\ slot.kind # "None"
              /\ is_expired(p.token, t) /\ ~is_renewable(p.token)
    THEN "stored"
    ELSE "none"

\* the second arm without its is_expired() guard
AuthMatchIgnoresExpiry(p, slot, renew, t) ==
    IF p.tag = "Ok" /\ is_expired(p.token, t) /\ is_renewable(p.token)
    THEN "refresh"
    ELSE IF p.tag = "Ok" /\ slot.kind # "None" /\ ~is_renewable(p.token)
    THEN "stored"
    ELSE IF slot.kind # "None" /\ renew
    THEN "stored"
    ELSE "none"

\* the first arm taken when renew is set, as well as when the token is expired
AuthMatchRefreshOnForce(p, slot, renew, t) ==
    IF p.tag = "Ok" /\ (is_expired(p.token, t) \/ renew) /\ is_renewable(p.token)
    THEN "refresh"
    ELSE IF p.tag = "Ok" /\ slot.kind # "None"
              /\ is_expired(p.token, t) /\ ~is_renewable(p.token)
    THEN "stored"
    ELSE IF slot.kind # "None" /\ renew
    THEN "stored"
    ELSE "none"

\* a future nobody has completed yet is renewed like an expired token
AuthMatchRenewsPending(p, slot, renew, t) ==
    IF p.tag = "Ok" /\ is_expired(p.token, t) /\ is_renewable(p.token)
    THEN "refresh"
    ELSE IF p.tag = "Ok" /\ slot.kind # "None"
              /\ is_expired(p.token, t) /\ ~is_renewable(p.token)
    THEN "stored"
    ELSE IF slot.kind # "None" /\ (renew \/ p.tag = "None")
    THEN "stored"
    ELSE "none"

\* the first arm without its !is_refreshable() guard
RedditMatchStoredFirst(p, slot, renew, t) ==
    IF p.tag = "Ok" /\ slot.kind # "None" /\ (is_expired(p.token, t) \/ renew)
    THEN "stored"
    ELSE IF p.tag = "Ok" /\ is_renewable(p.token) /\ (is_expired(p.token, t) \/ renew)
    THEN "refresh"
    ELSE IF slot.kind # "None" /\ renew
    THEN "stored"
    ELSE "none"

\* a future that resolved to an error is renewed like an expired token
AuthMatchRenewsFailed(p, slot, renew, t) ==
    IF p.tag = "Ok" /\ is_expired(p.token, t) /\ is_renewable(p.token)
    THEN "refresh"
    ELSE IF p.tag = "Ok" /\ slot.kind # "None"
              /\ is_expired(p.token, t) /\ ~is_renewable(p.token)
    THEN "stored"
    ELSE IF slot.kind # "None" /\ (renew \/ p.tag = "Err")
    THEN "stored"
    ELSE "none"

\* no arm for an expired token without a refresh token
AuthMatchNoExpiryArm(p, slot, renew, t) ==
    IF p.tag = "Ok" /\ is_expired(p.token, t) /\ is_renewable(p.token)
    THEN "refresh"
    ELSE IF slot.kind # "None" /\ renew
    THEN "stored"
    ELSE "none"

\* The match of Authenticator::bearer_token in auth/authentication.rs:
\* "refresh" = first arm, "stored" = second or third arm, "none" = the last.
AuthMatch(p, slot, renew, t) ==
    IF p.tag = "Ok" /\ is_expired(p.token, t) /\ is_renewable(p.token)
    THEN "refresh"
    ELSE IF p.tag = "Ok" /\ slot.kind # "None"
              /\ is_expired(p.token, t) /\ ~is_renewable(p.token)
    THEN "stored"
    ELSE IF slot.kind # "None" /\ renew
    THEN "stored"
    ELSE "none"

\* (variant: the second draft decides as the first)
RedditMatchAsAuth(p, slot, renew, t) == AuthMatch(p, slot, renew, t)

\* The match of Authenticator::bearer_token in reddit/auth/authentication.rs.
RedditMatch(p, slot, renew, t) ==
    IF p.tag = "Ok" /\ slot.kind # "None"
          /\ ~is_renewable(p.token) /\ (is_expired(p.token, t) \/ renew)
    THEN "stored"
    ELSE IF p.tag = "Ok" /\ is_renewable(p.token) /\ (is_expired(p.token, t) \/ renew)
    THEN "refresh"
    ELSE IF slot.kind # "None" /\ renew
    THEN "stored"
    ELSE "none"

\* (variant: an expired token is renewed by a refresh-token exchange whether or
\* not it has a refresh token)
MatchRefreshesAny(d, p, slot, renew, t) ==
    IF p.tag = "Ok" /\ is_expired(p.token, t) THEN "refresh"
    ELSE IF d = "auth" THEN AuthMatch(p, slot, renew, t) ELSE RedditMatch(p, slot, renew, t)

Match(d, p, slot, renew, t) ==
    IF d = "auth" THEN AuthMatch(p, slot, renew, t) ELSE RedditMatch(p, slot, renew, t)

\* ------------------------------------------------------------ construction
\* (variant: every flow is kept)
NewKeepsAny(flow) == flow

\* (variant: no flow is kept)
NewKeepsNone(flow) == NoFlow

\* (variant: the is_password test inverted)
NewKeepsOneTime(flow) == IF is_password(flow) THEN NoFlow ELSE flow

\* (variant: a Code flow is kept as well)
NewKeepsCode(flow) == IF flow.kind \in {"Password", "Code"} THEN flow ELSE NoFlow

\* The auth flow Authenticator::new keeps in the slot.
NewKeeps(flow) == IF is_password(flow) THEN flow ELSE NoFlow

\* (variant: an auth flow is required, as in SnooBuilder::build)
NewResultNeedsFlow(flow, token) ==
    IF flow.kind # "None" THEN "Ok" ELSE "MissingAuthFlow"

\* Whether Authenticator::new returns Ok(Authenticator) or the builder error.
NewResult(flow, token) ==
    IF token.present THEN "Ok"
    ELSE IF flow.kind # "None" THEN "Ok"
    ELSE "MissingAuthFlow"

NoLog == [caller |-> 0, valid |-> FALSE, done |-> FALSE, renew |-> FALSE, peek |-> Unresolved,
          expired |-> FALSE, slot0 |-> NoFlow, handle0 |-> 0, nfuts0 |-> 0,
          rule |-> "none",
          used |-> NoFlow, slot1 |-> NoFlow, handle1 |-> 0, ret |-> 0]

NoPrev == [caller |-> 0, ret |-> 0]

ArgFlows == {NoFlow, Code, Password, RefreshToken(1)}
ArgTokens == {NoToken} \cup
             { BearerToken(1, 0, ttl, r) : ttl \in 0..MaxTtl, r \in {0, 1} }

\* The values used on their own while an Authenticator runs: none.
NoResult == [op |-> "none"]
LibUnused ==
    /\ fut = FixedFuture(NoToken)
    /\ scope_set = ScopeSetNew
    /\ builder = AuthorizationUrlBuilderDefault
    /\ resolution = 1
    /\ result = NoResult

\* Authenticator::new(app_secrets, flow, token, http_client) on the arguments
\* already chosen: the Result (constructed), the slot, and the first future.
New ==
    /\ now = 0
    /\ constructed = NewResult(arg_flow, arg_token)
    /\ IF arg_token.present
       THEN /\ auth_flow = NewKeeps(arg_flow)
            /\ futs = <<FixedFuture(arg_token)>>
       ELSE IF arg_flow.kind # "None"
       THEN /\ auth_flow = NewKeeps(arg_flow)
            /\ \E serialized \in FormResults(arg_flow) :
                   futs = <<BearerTokenFutureNew(arg_flow, serialized)>>
       ELSE /\ auth_flow = NoFlow
            /\ futs = <<>>
    /\ bearer_token = Len(futs)
    /\ auth_flow_lock = 0
    /\ bearer_token_lock = 0
    /\ pc = [c \in Callers |-> "idle"]
    /\ local = [c \in Callers |-> [renew |-> FALSE, auth_flow |-> NoFlow]]
    /\ held = {}
    /\ prev = NoPrev
    /\ log = NoLog
    /\ startedFrom = [h \in 1..Len(futs) |-> 0]

Init ==
    /\ draft \in Drafts
    /\ arg_flow \in ArgFlows
    /\ arg_token \in ArgTokens
    /\ endpoint = FreeEndpoint
    /\ New
    /\ LibUnused

\* ------------------------------------------------ Authenticator::bearer_token
\* (variant: the slot is not behind a Mutex; a call enters while another is inside)
LockAuthFlowUnguarded(c, renew) ==
    /\ constructed = "Ok"
    /\ pc[c] = "idle"
    /\ auth_flow_lock' = c
    /\ bearer_token_lock' = 0
    /\ pc' = [pc EXCEPT ![c] = "lock_bearer_token"]
    /\ local' = [local EXCEPT ![c] = [renew |-> renew, auth_flow |-> NoFlow]]
    /\ log' = NoLog
    /\ prev' = IF log.done THEN [caller |-> log.caller, ret |-> log.ret] ELSE prev
    /\ UNCHANGED <<draft, constructed, arg_flow, arg_token, auth_flow, bearer_token,
                   futs, now, held, startedFrom, endpoint, lib>>

\* let mut auth_flow_guard = self.auth_flow.lock()
LockAuthFlow(c, renew) ==
    /\ constructed = "Ok"
    /\ pc[c] = "idle"
    /\ auth_flow_lock = 0
    /\ auth_flow_lock' = c
    /\ pc' = [pc EXCEPT ![c] = "lock_bearer_token"]
    /\ local' = [local EXCEPT ![c] = [renew |-> renew, auth_flow |-> NoFlow]]
    /\ log' = NoLog
    /\ prev' = IF log.done THEN [caller |-> log.caller, ret |-> log.ret] ELSE prev
    /\ UNCHANGED <<draft, constructed, arg_flow, arg_token, auth_flow, bearer_token,
                   bearer_token_lock, futs, now, held, startedFrom, endpoint, lib>>

\* let mut bearer_token_guard = self.bearer_token.lock()
LockBearerToken(c) ==
    /\ pc[c] = "lock_bearer_token"
    /\ bearer_token_lock = 0
    /\ bearer_token_lock' = c
    /\ pc' = [pc EXCEPT ![c] = "match"]
    /\ UNCHANGED <<draft, constructed, arg_flow, arg_token, auth_flow, bearer_token,
                   auth_flow_lock, futs, now, local, held, log, startedFrom, prev, endpoint, lib>>

\* What the call observes when it evaluates the match.
Observed(c, rule, used) ==
    [caller |-> c, valid |-> TRUE, done |-> FALSE, renew |-> local[c].renew,
     peek |-> peek(futs[bearer_token]),
     expired |-> is_expired(peek(futs[bearer_token]).token, now),
     slot0 |-> auth_flow, handle0 |-> bearer_token, nfuts0 |-> Len(futs),
     rule |-> rule,
     used |-> used, slot1 |-> NoFlow, handle1 |-> 0, ret |-> 0]

\* (variant: the new future is made but the cached handle is not replaced)
InstallKeepsCached(flow, serialized) ==
    /\ Len(futs) < MaxFutures
    /\ futs' = Append(futs, BearerTokenFutureNew(flow, serialized))
    /\ bearer_token' = bearer_token
    /\ startedFrom' = Append([startedFrom EXCEPT ![bearer_token] = @ + 1], 0)

\* (variant: replacing the cached handle drops the request it was waiting on)
InstallCancels(flow, serialized) ==
    /\ Len(futs) < MaxFutures
    /\ futs' = Append([futs EXCEPT ![bearer_token].future = FALSE],
                      BearerTokenFutureNew(flow, serialized))
    /\ bearer_token' = Len(futs) + 1
    /\ startedFrom' = Append([startedFrom EXCEPT ![bearer_token] = @ + 1], 0)

\* *bearer_token_guard = BearerTokenFuture::new(http_client, &auth_flow, ..).shared()
Install(flow, serialized) ==
    /\ Len(futs) < MaxFutures
    /\ futs' = Append(futs, BearerTokenFutureNew(flow, serialized))
    /\ bearer_token' = Len(futs) + 1
    /\ startedFrom' = Append([startedFrom EXCEPT ![bearer_token] = @ + 1], 0)

\* The match with both guards held: the arm is chosen and, in a renewing arm, the
\* flow is made or taken from the slot and the new future replaces the cached one.
MatchArm(c) ==
    /\ pc[c] = "match"
    /\ LET p == peek(futs[bearer_token])
           rule == Match(draft, p, auth_flow, local[c].renew, now)
       IN  CASE rule = "refresh" ->
                  /\ \E serialized \in FormResults(RefreshToken(p.token.refresh_token)) :
                         Install(RefreshToken(p.token.refresh_token), serialized)
                  /\ log' = Observed(c, rule, RefreshToken(p.token.refresh_token))
                  /\ pc' = [pc EXCEPT ![c] = "return"]
                  /\ UNCHANGED <<auth_flow, local>>
             [] rule = "stored" ->
                  /\ \E serialized \in FormResults(auth_flow) : Install(auth_flow, serialized)
                  /\ auth_flow' = NoFlow
                  /\ local' = [local EXCEPT ![c].auth_flow = auth_flow]
                  /\ log' = Observed(c, rule, auth_flow)
                  /\ pc' = [pc EXCEPT ![c] = "restore"]
             [] OTHER ->
                  /\ log' = Observed(c, rule, NoFlow)
                  /\ pc' = [pc EXCEPT ![c] = "return"]
                  /\ UNCHANGED <<auth_flow, local, futs, bearer_token, startedFrom>>
    /\ UNCHANGED <<draft, constructed, arg_flow, arg_token, auth_flow_lock,
                   bearer_token_lock, now, held, prev, endpoint, lib>>

\* (variant: the taken flow is never put back)
RestoresNothing(flow) == FALSE

\* if auth_flow.is_password() { *auth_flow_guard = Some(auth_flow); }
Restores(flow) == is_password(flow)

\* What a call of draft d decides on finding p cached and slot in the slot: the
\* arm, the flow the new future is made from, and the slot it leaves.
Decision(d, p, slot, renew, t) ==
    LET rule == Match(d, p, slot, renew, t) IN
      CASE rule = "refresh" ->
             [rule |-> rule, used |-> RefreshToken(p.token.refresh_token), slot1 |-> slot]
        [] rule = "stored" ->
             [rule |-> rule, used |-> slot,
              slot1 |-> IF Restores(slot) THEN slot ELSE NoFlow]
        [] OTHER ->
             [rule |-> rule, used |-> NoFlow, slot1 |-> slot]

\* (variant: the call goes on to return without writing the slot)
RestoreSkipped(c) ==
    /\ pc[c] = "restore"
    /\ pc' = [pc EXCEPT ![c] = "return"]
    /\ UNCHANGED <<draft, constructed, arg_flow, arg_token, auth_flow, bearer_token,
                   auth_flow_lock, bearer_token_lock, futs, now, local, held, log,
                   startedFrom, prev, endpoint, lib>>

Restore(c) ==
    /\ pc[c] = "restore"
    /\ auth_flow' = IF Restores(local[c].auth_flow) THEN local[c].auth_flow ELSE auth_flow
    /\ pc' = [pc EXCEPT ![c] = "return"]
    /\ UNCHANGED <<draft, constructed, arg_flow, arg_token, bearer_token,
                   auth_flow_lock, bearer_token_lock, futs, now, local, held, log,
                   startedFrom, prev, endpoint, lib>>

\* (variant: the call waits for the cached future's result before it returns)
ReturnAwaits(c) ==
    /\ pc[c] = "return"
    /\ futs[bearer_token].shared.tag # "None"
    /\ log' = [log EXCEPT !.done = TRUE, !.slot1 = auth_flow,
                          !.handle1 = bearer_token, !.ret = bearer_token]
    /\ held' = held \cup {bearer_token}
    /\ auth_flow_lock' = 0
    /\ bearer_token_lock' = 0
    /\ pc' = [pc EXCEPT ![c] = "idle"]
    /\ local' = [local EXCEPT ![c] = [renew |-> FALSE, auth_flow |-> NoFlow]]
    /\ UNCHANGED <<draft, constructed, arg_flow, arg_token, auth_flow, bearer_token,
                   futs, now, startedFrom, prev, endpoint, lib>>

\* (variant: the call returns a clone of the handle it found cached)
ReturnsFound(c) ==
    /\ pc[c] = "return"
    /\ log' = [log EXCEPT !.done = TRUE, !.slot1 = auth_flow,
                          !.handle1 = bearer_token, !.ret = log.handle0]
    /\ held' = held \cup {log.handle0}
    /\ auth_flow_lock' = 0
    /\ bearer_token_lock' = 0
    /\ pc' = [pc EXCEPT ![c] = "idle"]
    /\ local' = [local EXCEPT ![c] = [renew |-> FALSE, auth_flow |-> NoFlow]]
    /\ UNCHANGED <<draft, constructed, arg_flow, arg_token, auth_flow, bearer_token,
                   futs, now, startedFrom, prev, endpoint, lib>>

\* (variant: the auth_flow guard is not dropped when the call returns)
ReturnKeepsGuard(c) ==
    /\ pc[c] = "return"
    /\ log' = [log EXCEPT !.done = TRUE, !.slot1 = auth_flow,
                          !.handle1 = bearer_token, !.ret = bearer_token]
    /\ held' = held \cup {bearer_token}
    /\ bearer_token_lock' = 0
    /\ pc' = [pc EXCEPT ![c] = "idle"]
    /\ local' = [local EXCEPT ![c] = [renew |-> FALSE, auth_flow |-> NoFlow]]
    /\ UNCHANGED <<draft, constructed, arg_flow, arg_token, auth_flow, bearer_token,
                   auth_flow_lock, futs, now, startedFrom, prev, endpoint, lib>>

\* bearer_token_guard.clone(), then both guards are dropped
Return(c) ==
    /\ pc[c] = "return"
    /\ log' = [log EXCEPT !.done = TRUE, !.slot1 = auth_flow,
                          !.handle1 = bearer_token, !.ret = bearer_token]
    /\ held' = held \cup {bearer_token}
    /\ auth_flow_lock' = 0
    /\ bearer_token_lock' = 0
    /\ pc' = [pc EXCEPT ![c] = "idle"]
    /\ local' = [local EXCEPT ![c] = [renew |-> FALSE, auth_flow |-> NoFlow]]
    /\ UNCHANGED <<draft, constructed, arg_flow, arg_token, auth_flow, bearer_token,
                   futs, now, startedFrom, prev, endpoint, lib>>

\* --------------------------------------------------- BearerTokenFuture::poll
\* (variant: the body is parsed before the status is looked at)
ClassifyStatusLast(f, r, t) ==
    IF ~r.transport_ok THEN ResolvedErr("NetworkError")
    ELSE IF ~r.parses THEN ResolvedErr("InvalidResponse")
    ELSE IF ~is_success(r.status) THEN UnsuccessfulResponse(r.status)
    ELSE ResolvedOk(BearerToken(f, t, r.expires_in, IF r.refreshable THEN f ELSE 0))

\* The terminal value of the exchange, from the response (lines 360-379).
Classify(f, r, t) ==
    IF ~r.transport_ok THEN ResolvedErr("NetworkError")
    ELSE IF ~is_success(r.status) THEN UnsuccessfulResponse(r.status)
    ELSE IF ~r.parses THEN ResolvedErr("InvalidResponse")
    ELSE ResolvedOk(BearerToken(f, t, r.expires_in, IF r.refreshable THEN f ELSE 0))

\* (variant: the future is handed out unshared and its request is not taken out
\* when it completes, so every poll of a clone runs the inner future again)
PollUnshared(h) ==
    /\ h \in held
    /\ LET f == futs[h] IN
         CASE f.variant = "Fixed" /\ f.fixed.present ->
                futs' = [futs EXCEPT ![h].shared = ResolvedOk(f.fixed)]
           [] f.variant = "Future" /\ f.error # "None" ->
                futs' = [futs EXCEPT ![h].shared = ResolvedErr(f.error)]
           [] f.variant = "Future" /\ f.error = "None" /\ f.future ->
                \/ UNCHANGED futs
                \/ \E r \in Answers(endpoint) :
                       futs' = [futs EXCEPT ![h].shared = Classify(h, r, now)]
           [] OTHER -> UNCHANGED futs
    /\ UNCHANGED <<draft, constructed, arg_flow, arg_token, auth_flow, bearer_token,
                   auth_flow_lock, bearer_token_lock, now, pc, local, held, log,
                   startedFrom, prev, endpoint, lib>>

\* What one call of BearerTokenFuture::poll gives besides a terminal value.
NotReady == [tag |-> "NotReady", token |-> NoToken, error |-> "None", status |-> 0]
\* panic!("future has already completed!")
Panicked == [tag |-> "Panic", token |-> NoToken, error |-> "None", status |-> 0]

\* (variant: the token and the error are read, not taken, and the request is put
\* back after it completed)
pollKeepsValue(f, id, ready, r, t) ==
    CASE f.variant = "Fixed" /\ f.fixed.present ->
           [fut |-> f, out |-> ResolvedOk(f.fixed)]
      [] f.variant = "Future" /\ f.error # "None" ->
           [fut |-> f, out |-> ResolvedErr(f.error)]
      [] f.variant = "Future" /\ f.error = "None" /\ f.future ->
           IF ready THEN [fut |-> f, out |-> Classify(id, r, t)]
                    ELSE [fut |-> f, out |-> NotReady]
      [] OTHER -> [fut |-> [f EXCEPT !.panicked = TRUE], out |-> Panicked]

\* BearerTokenFuture::poll on the future f at time t: the future it leaves and
\* what it returns.  ready and r are what the request does when it is polled
\* (inner_future.poll() is NotReady, or completes with the answer r); id names
\* the token a well-formed answer carries.
poll(f, id, ready, r, t) ==
    CASE f.variant = "Fixed" /\ f.fixed.present ->
           [fut |-> [f EXCEPT !.fixed = NoToken], out |-> ResolvedOk(f.fixed)]
      [] f.variant = "Future" /\ f.error # "None" ->
           [fut |-> [f EXCEPT !.error = "None"], out |-> ResolvedErr(f.error)]
      [] f.variant = "Future" /\ f.error = "None" /\ f.future ->
           \* NotReady puts the request back, else it is consumed and its
           \* outcome classified
           IF ready THEN [fut |-> [f EXCEPT !.future = FALSE], out |-> Classify(id, r, t)]
                    ELSE [fut |-> f, out |-> NotReady]
      [] OTHER -> [fut |-> [f EXCEPT !.panicked = TRUE], out |-> Panicked]

\* (variant: when the request fails the future makes the same request again and
\* puts itself in the cache)
PollRetries(h) ==
    /\ h \in held
    /\ futs[h].shared.tag = "None"
    /\ \E ready \in BOOLEAN, r \in Answers(endpoint) :
         LET p == poll(futs[h], h, ready, r, now)
             polled == [futs EXCEPT ![h] =
                          [p.fut EXCEPT !.shared = IF p.out.tag \in {"Ok", "Err"}
                                                   THEN p.out ELSE @]]
         IN  IF p.out.tag = "Err" /\ Len(futs) < MaxFutures
             THEN /\ futs' = Append(polled, BearerTokenFutureNew(futs[h].flow, TRUE))
                  /\ bearer_token' = Len(futs) + 1
                  /\ startedFrom' = Append(startedFrom, 0)
             ELSE /\ futs' = polled
                  /\ UNCHANGED <<bearer_token, startedFrom>>
    /\ UNCHANGED <<draft, constructed, arg_flow, arg_token, auth_flow,
                   auth_flow_lock, bearer_token_lock, now, pc, local, held, log,
                   prev, endpoint, lib>>

\* (variant: the clones are handles on the future itself, with no Shared in
\* between: every poll of a clone polls the future)
PollRaw(h) ==
    /\ h \in held
    /\ \E ready \in BOOLEAN, r \in Answers(endpoint) :
         LET p == poll(futs[h], h, ready, r, now) IN
           futs' = [futs EXCEPT ![h] =
                      [p.fut EXCEPT !.shared = IF p.out.tag \in {"Ok", "Err"}
                                               THEN p.out ELSE @]]
    /\ UNCHANGED <<draft, constructed, arg_flow, arg_token, auth_flow, bearer_token,
                   auth_flow_lock, bearer_token_lock, now, pc, local, held, log,
                   startedFrom, prev, endpoint, lib>>

\* (variant: only the future that is cached is driven; a future that was
\* replaced in the cache makes no progress whoever polls its clones)
PollCachedOnly(h) ==
    /\ h \in held
    /\ h = bearer_token
    /\ IF futs[h].shared.tag = "None"
       THEN \E ready \in BOOLEAN, r \in Answers(endpoint) :
              LET p == poll(futs[h], h, ready, r, now) IN
                futs' = [futs EXCEPT ![h] =
                           [p.fut EXCEPT !.shared = IF p.out.tag \in {"Ok", "Err"}
                                                    THEN p.out ELSE @]]
       ELSE UNCHANGED futs
    /\ UNCHANGED <<draft, constructed, arg_flow, arg_token, auth_flow, bearer_token,
                   auth_flow_lock, bearer_token_lock, now, pc, local, held, log,
                   startedFrom, prev, endpoint, lib>>

\* A clone of handle h is polled: Shared polls the inner future only while the
\* cell is empty, and stores the terminal value for every clone; once the cell
\* is full a poll of a clone returns the stored value and touches nothing.
\* panicked records that the inner future was polled after it had completed.
Poll(h) ==
    /\ h \in held
    /\ IF futs[h].shared.tag = "None"
       THEN \E ready \in BOOLEAN, r \in Answers(endpoint) :
              LET p == poll(futs[h], h, ready, r, now) IN
                futs' = [futs EXCEPT ![h] =
                           [p.fut EXCEPT !.shared = IF p.out.tag \in {"Ok", "Err"}
                                                    THEN p.out ELSE @]]
       ELSE UNCHANGED futs
    /\ UNCHANGED <<draft, constructed, arg_flow, arg_token, auth_flow, bearer_token,
                   auth_flow_lock, bearer_token_lock, now, pc, local, held, log,
                   startedFrom, prev, endpoint, lib>>

\* Time passes.
Tick ==
    /\ constructed = "Ok"
    /\ now < MaxTime
    /\ now' = now + 1
    /\ UNCHANGED <<draft, constructed, arg_flow, arg_token, auth_flow, bearer_token,
                   auth_flow_lock, bearer_token_lock, futs, pc, local, held, log,
                   startedFrom, prev, endpoint, lib>>

Next ==
    \/ \E c \in Callers, renew \in BOOLEAN : LockAuthFlow(c, renew)
    \/ \E c \in Callers : LockBearerToken(c)
    \/ \E c \in Callers : MatchArm(c)
    \/ \E c \in Callers : Restore(c)
    \/ \E c \in Callers : Return(c)
    \/ \E h \in 1..MaxFutures : Poll(h)
    \/ Tick

Spec == Init /\ [][Next]_vars

\* ------------------------------------------- one caller, a scripted endpoint
\* An Authenticator made from a Code flow alone, one caller that calls
\* bearer_token(false) and polls what it gets, and a token endpoint that gives
\* one answer, of any shape, to every request.
InitEndpoint ==
    /\ draft \in Drafts
    /\ arg_flow = Code
    /\ arg_token = NoToken
    /\ endpoint \in { ScriptedEndpoint(r) : r \in AllResponses }
    /\ New
    /\ LibUnused

NextEndpoint ==
    \/ LockAuthFlow(1, FALSE)
    \/ LockBearerToken(1)
    \/ MatchArm(1)
    \/ Return(1)
    \/ \E h \in 1..MaxFutures : Poll(h)
    \/ Tick

SpecEndpoint == InitEndpoint /\ [][NextEndpoint]_vars

\* ------------------------------------------------ the values used on their own
auth == <<draft, constructed, arg_flow, arg_token, auth_flow, bearer_token,
          auth_flow_lock, bearer_token_lock, futs, now, pc, local, held, log,
          startedFrom, prev, endpoint>>

\* No Authenticator is made.
NoAuthenticator ==
    /\ draft = "auth"
    /\ arg_flow = NoFlow
    /\ arg_token = NoToken
    /\ endpoint = FreeEndpoint
    /\ New

\* ---- a BearerTokenFuture polled directly
\* A BearerTokenFuture from a BearerToken (From<BearerToken>) or from
\* BearerTokenFuture::new is polled again and again by its owner; result keeps
\* what it was made from and what each poll returned.
InitFuture ==
    /\ NoAuthenticator
    /\ scope_set = ScopeSetNew
    /\ builder = AuthorizationUrlBuilderDefault
    /\ resolution = 1
    /\ \/ \E token \in ArgTokens \ {NoToken} :
            /\ fut = FixedFuture(token)
            /\ result = [op |-> "poll", token |-> token, polls |-> <<>>]
       \/ \E flow \in ArgFlows \ {NoFlow} : \E serialized \in FormResults(flow) :
            /\ fut = BearerTokenFutureNew(flow, serialized)
            /\ result = [op |-> "poll", token |-> NoToken, polls |-> <<>>]

PollFuture ==
    /\ Len(result.polls) < MaxPolls
    /\ \E ready \in BOOLEAN, r \in Answers(endpoint) :
         LET p == poll(fut, 1, ready, r, now) IN
           /\ fut' = p.fut
           /\ result' = [result EXCEPT !.polls = Append(@, p.out)]
    /\ UNCHANGED <<auth, scope_set, builder, resolution>>

NextFuture == PollFuture

SpecFuture == InitFuture /\ [][NextFuture]_vars

\* ---- a BearerToken and the clock
\* A BearerToken made at time 0 with any expires_in; the clock moves in steps of
\* 1/resolution second and is_expired is called at any time.
InitClock ==
    /\ draft = "auth"
    /\ arg_flow = NoFlow
    /\ arg_token \in ArgTokens \ {NoToken}
    /\ endpoint = FreeEndpoint
    /\ New
    /\ fut = FixedFuture(NoToken)
    /\ scope_set = ScopeSetNew
    /\ builder = AuthorizationUrlBuilderDefault
    /\ resolution \in 1..MaxResolution
    /\ result = [op |-> "none", at |-> 0, ret |-> FALSE]

TickClock ==
    /\ now < (MaxTtl + 1) * resolution
    /\ now' = now + 1
    /\ UNCHANGED <<draft, constructed, arg_flow, arg_token, auth_flow, bearer_token,
                   auth_flow_lock, bearer_token_lock, futs, pc, local, held, log,
                   startedFrom, prev, endpoint, lib>>

CallIsExpired ==
    /\ result' = [op |-> "is_expired", at |-> now, ret |-> is_expired(arg_token, now)]
    /\ UNCHANGED <<auth, fut, scope_set, builder, resolution>>

NextClock == TickClock \/ CallIsExpired

SpecClock == InitClock /\ [][NextClock]_vars

\* ---- a ScopeSet
\* The scopes the calls are made with, and the strings that are deserialized.
ScopesInPlay == { ScopeOrder[i] : i \in 1..NumScopes }
Iterators ==
    LET S == {"All", "Account", "Identity"}
    IN  {<<>>} \cup { <<a>> : a \in S } \cup { <<a, b>> : a \in S, b \in S }
Tokens ==
    { to_string[s] : s \in ScopesInPlay } \cup
    { <<"u", "n", "k", "n", "o", "w", "n">>, <<"A", "c", "c", "o", "u", "n", "t">>,
      <<"a", "c", "c">>, <<"w", "i", "k", "i", "r", "e", "a", "d">> }
PairTokens ==
    { to_string["All"], to_string["Account"], to_string["History"],
      <<"u", "n", "k", "n", "o", "w", "n">> }
Strings ==
    {<<>>} \cup Tokens \cup
    { a \o <<" ">> \o b : a \in PairTokens, b \in PairTokens } \cup
    { <<" ">> \o a \o <<" ", " ">> \o b \o <<" ">> : a \in PairTokens, b \in PairTokens }

ScopeResult(op, arg, before, ret, str) ==
    [op |-> op, arg |-> arg, before |-> before, ret |-> ret, str |-> str]

InitScopes ==
    /\ NoAuthenticator
    /\ fut = FixedFuture(NoToken)
    /\ builder = AuthorizationUrlBuilderDefault
    /\ resolution = 1
    /\ scope_set = ScopeSetNew
    /\ result = ScopeResult("new", "None", {}, FALSE, <<>>)

CallNew ==
    /\ scope_set' = ScopeSetNew
    /\ result' = ScopeResult("new", "None", {}, FALSE, <<>>)
    /\ UNCHANGED <<auth, fut, builder, resolution>>

CallDefault ==
    /\ scope_set' = ScopeSetDefault
    /\ result' = ScopeResult("default", "None", {}, FALSE, <<>>)
    /\ UNCHANGED <<auth, fut, builder, resolution>>

CallInsert(scope) ==
    /\ scope_set' = insert(scope_set, scope).set
    /\ result' = ScopeResult("insert", scope, scope_set, insert(scope_set, scope).ret, <<>>)
    /\ UNCHANGED <<auth, fut, builder, resolution>>

CallRemove(scope) ==
    /\ scope_set' = remove(scope_set, scope).set
    /\ result' = ScopeResult("remove", scope, {}, remove(scope_set, scope).ret, <<>>)
    /\ UNCHANGED <<auth, fut, builder, resolution>>

CallTake(scope) ==
    /\ scope_set' = take(scope_set, scope).set
    /\ result' = ScopeResult("take", scope, {}, take(scope_set, scope).ret, <<>>)
    /\ UNCHANGED <<auth, fut, builder, resolution>>

CallClear ==
    /\ scope_set' = clear(scope_set)
    /\ result' = ScopeResult("clear", "None", {}, FALSE, <<>>)
    /\ UNCHANGED <<auth, fut, builder, resolution>>

\* iter.collect::<ScopeSet>()
CallCollect(iter) ==
    /\ scope_set' = from_iter(iter)
    /\ result' = ScopeResult("collect", "None", {}, FALSE, <<>>)
    /\ UNCHANGED <<auth, fut, builder, resolution>>

CallSerialize ==
    /\ result' = ScopeResult("serialize", "None", {}, TRUE, serialize(scope_set))
    /\ UNCHANGED <<auth, fut, builder, resolution, scope_set>>

\* A string is deserialized into a ScopeSet: one of Strings, or the string that
\* was just serialized.
CallDeserialize(v) ==
    /\ scope_set' = IF visit_str(v).ok THEN visit_str(v).set ELSE scope_set
    /\ result' = ScopeResult("deserialize", "None", {}, visit_str(v).ok, v)
    /\ UNCHANGED <<auth, fut, builder, resolution>>

\* matches_scope of a BearerToken whose scope is scope_set
CallMatchesScope(scope) ==
    /\ result' = ScopeResult("matches_scope", scope, scope_set,
                             matches_scope(scope_set, scope), <<>>)
    /\ UNCHANGED <<auth, fut, builder, resolution, scope_set>>

NextScopes ==
    \/ CallNew
    \/ CallDefault
    \/ \E scope \in ScopesInPlay : CallInsert(scope)
    \/ \E scope \in ScopesInPlay : CallRemove(scope)
    \/ \E scope \in ScopesInPlay : CallTake(scope)
    \/ CallClear
    \/ \E iter \in Iterators : CallCollect(iter)
    \/ CallSerialize
    \/ \E v \in Strings \cup (IF result.op = "serialize" THEN {result.str} ELSE {}) :
          CallDeserialize(v)
    \/ \E scope \in ScopesInPlay : CallMatchesScope(scope)

SpecScopes == InitScopes /\ [][NextScopes]_vars

\* ---- an AuthorizationUrlBuilder
InitUrl ==
    /\ NoAuthenticator
    /\ fut = FixedFuture(NoToken)
    /\ scope_set = ScopeSetNew
    /\ resolution = 1
    /\ builder = AuthorizationUrlBuilderDefault
    /\ result = [op |-> "default", before |-> AuthorizationUrlBuilderDefault,
                 out |-> BuildErr("None")]

\* One of the setters of the builder is called.
CallSetter ==
    /\ \/ \E v \in 1..MaxStrings : builder' = [builder EXCEPT !.client_id = v]
       \/ \E v \in BOOLEAN : builder' = [builder EXCEPT !.compact = v]
       \/ \E v \in {"Temporary", "Permanent"} : builder' = [builder EXCEPT !.duration = v]
       \/ \E v \in 1..MaxStrings : builder' = [builder EXCEPT !.redirect_uri = v]
       \/ \E v \in {"Code", "Token"} : builder' = [builder EXCEPT !.response_type = v]
       \/ \E v \in {<<>>, <<"WikiEdit", "WikiRead">>} : builder' = builder_scope(builder, v)
       \/ \E v \in 1..MaxStrings : builder' = [builder EXCEPT !.state = v]
    /\ UNCHANGED <<auth, fut, scope_set, resolution, result>>

CallBuild ==
    /\ result' = [op |-> "build", before |-> builder, out |-> build(builder)]
    /\ UNCHANGED <<auth, fut, scope_set, resolution, builder>>

NextUrl == CallSetter \/ CallBuild

SpecUrl == InitUrl /\ [][NextUrl]_vars

\* ------------------------------------------- calls that wait for the locks
\* Threads that call bearer_token MaxCalls times in all: a call first waits for
\* the auth_flow Mutex (lock_auth_flow), then goes on as in Spec.  result counts
\* the calls made.
InitLive ==
    /\ draft \in Drafts
    /\ arg_flow = Password
    /\ arg_token \in ArgTokens
    /\ endpoint = FreeEndpoint
    /\ New
    /\ fut = FixedFuture(NoToken)
    /\ scope_set = ScopeSetNew
    /\ builder = AuthorizationUrlBuilderDefault
    /\ resolution = 1
    /\ result = [op |-> "calls", calls |-> 0]

\* authenticator.bearer_token(http_client, renew) is called by thread c
Call(c, renew) ==
    /\ constructed = "Ok"
    /\ pc[c] = "idle"
    /\ result.calls < MaxCalls
    /\ result' = [result EXCEPT !.calls = @ + 1]
    /\ pc' = [pc EXCEPT ![c] = "lock_auth_flow"]
    /\ local' = [local EXCEPT ![c] = [renew |-> renew, auth_flow |-> NoFlow]]
    /\ UNCHANGED <<draft, constructed, arg_flow, arg_token, auth_flow, bearer_token,
                   auth_flow_lock, bearer_token_lock, futs, now, held, log,
                   startedFrom, prev, endpoint, fut, scope_set, builder, resolution>>

\* self.auth_flow.lock() returns once the Mutex is free
LockAuthFlowWaiting(c) ==
    /\ pc[c] = "lock_auth_flow"
    /\ auth_flow_lock = 0
    /\ auth_flow_lock' = c
    /\ pc' = [pc EXCEPT ![c] = "lock_bearer_token"]
    /\ log' = NoLog
    /\ prev' = IF log.done THEN [caller |-> log.caller, ret |-> log.ret] ELSE prev
    /\ UNCHANGED <<draft, constructed, arg_flow, arg_token, auth_flow, bearer_token,
                   bearer_token_lock, futs, now, local, held, startedFrom, endpoint, lib>>

\* The steps of thread c inside a call.
CallStep(c) ==
    \/ LockAuthFlowWaiting(c)
    \/ LockBearerToken(c)
    \/ MatchArm(c)
    \/ Restore(c)
    \/ Return(c)

NextLive ==
    \/ \E c \in Callers, renew \in BOOLEAN : Call(c, renew)
    \/ \E c \in Callers : CallStep(c)
    \/ \E h \in 1..MaxFutures : Poll(h)
    \/ Tick

\* A thread inside a call that can take its next step takes it: a running
\* thread is scheduled, and lock() on a Mutex that is and stays free returns.
\* Nothing makes a thread call bearer_token, poll a handle, or time pass.
FairLive == \A c \in Callers : WF_vars(CallStep(c))

SpecLive == InitLive /\ [][NextLive]_vars /\ FairLive

\* --------------------------------------------- handles that keep being polled
\* As SpecLive, but what is promised is that a handle that was handed out keeps
\* being polled and that the request it waits on completes, with an answer or a
\* transport error: a poll that finds the request not ready changes nothing, so
\* the step that has to happen is the poll that completes.
FairPolled == \A h \in 1..MaxFutures : WF_vars(Poll(h))

SpecPolled == InitLive /\ [][NextLive]_vars /\ FairPolled

\* ------------------------------------- RawHttpFuture / HttpResponseFuture
\* What hyper delivers for one request: the head (status, headers) and the body
\* in MaxChunks chunks at most.
Wires ==
    [status : {200, 401}, headers : {1, 2}, body : 0..MaxChunks]

\* RawHttpFuture::new / HttpResponseFuture::new: only the response future is
\* there.  instant says whether the item carries Instant::now() (the
\* HttpResponseFuture of net/response.rs) or not (the RawHttpFuture of http.rs);
\* read is what the Concat2 in body_future has accumulated.
RawHttpFutureNew(instant) ==
    [instant |-> instant, response_future |-> TRUE, status |-> 0, headers |-> 0,
     body_future |-> FALSE, read |-> 0, panicked |-> FALSE]

HttpNotReady == [tag |-> "NotReady", instant |-> FALSE, status |-> 0, headers |-> 0, body |-> 0]
HttpErr == [tag |-> "Err", instant |-> FALSE, status |-> 0, headers |-> 0, body |-> 0]
HttpPanic == [tag |-> "Panic", instant |-> FALSE, status |-> 0, headers |-> 0, body |-> 0]
HttpReady(instant, status, headers, body) ==
    [tag |-> "Ready", instant |-> instant, status |-> status, headers |-> headers,
     body |-> body]

\* What the two inner futures can do when polled: the response future is not
\* ready, fails, or gives the head; the body stream fails, or hands over some
\* of the chunks not read yet and may end once all are read.
HeadEvents == {"NotReady", "Err", "Ready"}
BodyEvents(wire) ==
    { [err |-> TRUE, arrive |-> 0, end |-> FALSE] } \cup
    { [err |-> FALSE, arrive |-> k, end |-> e] : k \in 0..wire.body, e \in BOOLEAN }

\* body_future.poll(): Concat2 takes what has arrived and is Ready with
\* everything once the stream has ended.
Concat2Poll(read, ev, wire) ==
    LET got == IF read + ev.arrive > wire.body THEN wire.body ELSE read + ev.arrive IN
      IF ev.err THEN [tag |-> "Err", read |-> read]
      ELSE IF ev.end /\ got = wire.body THEN [tag |-> "Ready", read |-> got]
      ELSE [tag |-> "NotReady", read |-> got]

\* (variant: a body future that is not ready is not put back)
RawHttpFuturePollDropsBody(f, head, ev, wire) ==
    LET first ==
          IF ~f.response_future THEN [ret |-> FALSE, fut |-> f, out |-> HttpNotReady]
          ELSE CASE head = "Err" ->
                      [ret |-> TRUE, fut |-> [f EXCEPT !.response_future = FALSE],
                       out |-> HttpErr]
                 [] head = "NotReady" ->
                      [ret |-> TRUE, fut |-> f, out |-> HttpNotReady]
                 [] OTHER ->
                      [ret |-> FALSE,
                       fut |-> [f EXCEPT !.response_future = FALSE,
                                         !.status = wire.status,
                                         !.headers = wire.headers,
                                         !.body_future = TRUE, !.read = 0],
                       out |-> HttpNotReady]
        g == first.fut
        b == Concat2Poll(g.read, ev, wire)
    IN  IF first.ret THEN [fut |-> first.fut, out |-> first.out]
        ELSE IF g.body_future
        THEN CASE b.tag = "Err" ->
                    [fut |-> [g EXCEPT !.body_future = FALSE, !.read = 0], out |-> HttpErr]
               [] b.tag = "NotReady" ->
                    [fut |-> [g EXCEPT !.body_future = FALSE, !.read = 0],
                     out |-> HttpNotReady]
               [] OTHER ->
                    [fut |-> [g EXCEPT !.body_future = FALSE, !.read = 0,
                                       !.status = 0, !.headers = 0],
                     out |-> HttpReady(g.instant, g.status, g.headers, b.read)]
        ELSE [fut |-> [g EXCEPT !.panicked = TRUE], out |-> HttpPanic]

\* RawHttpFuture::poll and HttpResponseFuture::poll on the future f: the future
\* it leaves and what it returns, when the response future would do head and the
\* body stream ev.  The first block returns on Err and NotReady and falls
\* through to the second when the head is Ready or was taken before.
RawHttpFuturePoll(f, head, ev, wire) ==
    LET first ==
          IF ~f.response_future THEN [ret |-> FALSE, fut |-> f, out |-> HttpNotReady]
          ELSE CASE head = "Err" ->
                      [ret |-> TRUE, fut |-> [f EXCEPT !.response_future = FALSE],
                       out |-> HttpErr]
                 [] head = "NotReady" ->
                      [ret |-> TRUE, fut |-> f, out |-> HttpNotReady]
                 [] OTHER ->
                      [ret |-> FALSE,
                       fut |-> [f EXCEPT !.response_future = FALSE,
                                         !.status = wire.status,
                                         !.headers = wire.headers,
                                         !.body_future = TRUE, !.read = 0],
                       out |-> HttpNotReady]
        g == first.fut
        b == Concat2Poll(g.read, ev, wire)
    IN  IF first.ret THEN [fut |-> first.fut, out |-> first.out]
        ELSE IF g.body_future
        THEN CASE b.tag = "Err" ->
                    [fut |-> [g EXCEPT !.body_future = FALSE, !.read = 0], out |-> HttpErr]
               [] b.tag = "NotReady" ->
                    [fut |-> [g EXCEPT !.read = b.read], out |-> HttpNotReady]
               [] OTHER ->
                    [fut |-> [g EXCEPT !.body_future = FALSE, !.read = 0,
                                       !.status = 0, !.headers = 0],
                     out |-> HttpReady(g.instant, g.status, g.headers, b.read)]
        ELSE [fut |-> [g EXCEPT !.panicked = TRUE], out |-> HttpPanic]

\* Where a future is: waiting for the head, reading the body, or finished.
Phase(f) ==
    IF f.response_future THEN "head" ELSE IF f.body_future THEN "body" ELSE "done"

\* One request: the future is made and polled again and again by its owner;
\* result keeps what is on the wire, what each poll returned and the phase each
\* poll left the future in.
InitHttp ==
    /\ NoAuthenticator
    /\ scope_set = ScopeSetNew
    /\ builder = AuthorizationUrlBuilderDefault
    /\ resolution = 1
    /\ \E instant \in BOOLEAN, wire \in Wires :
         /\ fut = RawHttpFutureNew(instant)
         /\ result = [op |-> "http", wire |-> wire, polls |-> <<>>, phases |-> <<>>]

PollHttp ==
    /\ Len(result.polls) < MaxPolls
    /\ \E head \in HeadEvents, ev \in BodyEvents(result.wire) :
         LET p == RawHttpFuturePoll(fut, head, ev, result.wire) IN
           /\ fut' = p.fut
           /\ result' = [result EXCEPT !.polls = Append(@, p.out),
                                       !.phases = Append(@, Phase(p.fut))]
    /\ UNCHANGED <<auth, scope_set, builder, resolution>>

NextHttp == PollHttp

SpecHttp == InitHttp /\ [][NextHttp]_vars

\* ================================================================ claims
\* What the latest call found when it evaluated the match (log), read as the
\* rules of the renewal policy.
Rule1Applies ==
    log.valid /\ log.peek.tag = "Ok" /\ log.expired /\ is_renewable(log.peek.token)
Rule2Applies ==
    /\ log.valid
    /\ log.slot0.kind # "None"
    /\ \/ log.peek.tag = "Ok" /\ log.expired /\ ~is_renewable(log.peek.token)
       \/ log.renew

\* The call made one new future and installed it as the cached handle.
StartedNew ==
    /\ Len(futs) = log.nfuts0 + 1
    /\ bearer_token = log.nfuts0 + 1
    /\ bearer_token # log.handle0
    /\ futs[bearer_token].variant = "Future"
    /\ futs[bearer_token].flow = log.used
    /\ log.done => log.ret = bearer_token /\ log.handle1 = bearer_token

\* The call made no future and left the slot and the cached handle alone.
NoOp ==
    /\ log.rule = "none"
    /\ Len(futs) = log.nfuts0
    /\ bearer_token = log.handle0
    /\ auth_flow = log.slot0
    /\ log.done => log.ret = log.handle0 /\ log.handle1 = log.handle0
                   /\ log.slot1 = log.slot0

HttpCalls == Cardinality({h \in 1..Len(futs) : futs[h].executed})

\* C1: a call that finds the cached future resolved to a token that is expired
\* and has a refresh token makes a new future from RefreshToken(that refresh
\* token), installs it as the cached handle and returns it, and the slot is
\* throughout what it was before the call (Password stays, empty stays empty).
C1_Rule1Refreshes ==
    Rule1Applies =>
        /\ log.rule = "refresh"
        /\ log.used = RefreshToken(log.peek.token.refresh_token)
        /\ StartedNew
        /\ auth_flow = log.slot0
        /\ log.done => log.slot1 = log.slot0

C1_Witness ==
    /\ Rule1Applies /\ log.done /\ ~log.renew
    /\ log.slot0 = Password /\ auth_flow = Password
    /\ futs[log.ret].flow.kind = "RefreshToken"

\* C2: with renew false and with renew true alike, a call that finds an expired
\* refreshable token starts exactly one future, and it is a RefreshToken one,
\* never one made from the flow stored in the slot.
C2_Rule1BeforeRule2 ==
    \A renew \in BOOLEAN :
        (Rule1Applies /\ log.renew = renew) =>
            /\ futs[bearer_token].flow.kind = "RefreshToken"
            /\ futs[bearer_token].flow # log.slot0
            /\ Len(futs) = log.nfuts0 + 1
            /\ startedFrom[log.handle0] = 1

C2_Witness ==
    /\ Rule1Applies /\ log.done /\ log.renew
    /\ log.slot0 = Password
    /\ futs[bearer_token].flow.kind = "RefreshToken"

\* C3: a call with renew false that finds an expired token without a refresh
\* token and a Password flow in the slot makes the new future from that Password
\* flow, installs it, and has the Password flow back in the slot from the restore
\* step on, so also when it returns.
C3_Rule2ExpiryKeepsPassword ==
    ( /\ log.valid /\ ~log.renew
      /\ log.peek.tag = "Ok" /\ log.expired /\ ~is_renewable(log.peek.token)
      /\ log.slot0 = Password ) =>
        /\ log.rule = "stored"
        /\ log.used = Password
        /\ StartedNew
        /\ pc[log.caller] # "restore" => auth_flow = Password
        /\ log.done => log.slot1 = Password

C3_Witness ==
    /\ log.done /\ ~log.renew
    /\ log.peek.tag = "Ok" /\ log.expired /\ ~is_renewable(log.peek.token)
    /\ log.slot0 = Password /\ auth_flow = Password
    /\ futs[log.ret].flow = Password

C7_SingleUseNeverRetained ==
    /\ (constructed = "Ok" /\ auth_flow_lock = 0) =>
           auth_flow.kind \in {"None", "Password"}
    /\ (log.done /\ log.rule = "stored") =>
           log.slot1 = (IF is_password(log.used) THEN log.used ELSE NoFlow)

C7_Witness ==
    /\ arg_flow = Code /\ ~arg_token.present
    /\ log.done /\ log.renew
    /\ auth_flow = NoFlow /\ auth_flow_lock = 0

\* C8: in an Authenticator made from a Password flow alone, a call with renew
\* false that finds the first future still unresolved makes no future and returns
\* a clone of that first future: it is still the only future, every handle given
\* out so far is a clone of it, and at most one request was executed (exactly one
\* if its form body serialized).
C8_ConcurrentCallsShareOneExchange ==
    ( /\ arg_flow = Password /\ ~arg_token.present
      /\ log.valid /\ ~log.renew
      /\ log.handle0 = 1 /\ log.peek.tag = "None" ) =>
        /\ NoOp
        /\ Len(futs) = 1
        /\ bearer_token = 1
        /\ held \subseteq {1}
        /\ prev.ret \in {0, 1}
        /\ HttpCalls = (IF futs[1].executed THEN 1 ELSE 0)
        /\ log.done => log.ret = 1

C8_Witness ==
    /\ arg_flow = Password /\ ~arg_token.present
    /\ log.done /\ ~log.renew /\ log.peek.tag = "None" /\ log.ret = 1
    /\ prev.ret = 1 /\ prev.caller # 0 /\ prev.caller # log.caller
    /\ futs[1].shared.tag = "None" /\ futs[1].executed
    /\ HttpCalls = 1

\* C9: for each cached handle at most one call ever starts a new future while it
\* is cached; a call with renew false that finds it resolved to an expired token
\* that can be renewed (refresh token, or a flow in the slot) starts that one and
\* installs it; a call with renew false that finds the cached future unresolved
\* starts none and returns the cached handle.
C9_OneExchangePerRenewal ==
    /\ \A h \in 1..Len(futs) : startedFrom[h] <= 1
    /\ ( /\ log.valid /\ ~log.renew
         /\ log.peek.tag = "Ok" /\ log.expired
         /\ is_renewable(log.peek.token) \/ log.slot0.kind # "None" ) =>
           /\ log.rule # "none"
           /\ StartedNew
           /\ startedFrom[log.handle0] = 1
    /\ (log.valid /\ ~log.renew /\ log.peek.tag = "None") => NoOp

C9_Witness ==
    /\ log.done /\ ~log.renew
    /\ log.peek.tag = "Ok" /\ log.expired
    /\ log.rule # "none" /\ log.ret # log.handle0
    /\ prev.caller # 0 /\ prev.caller # log.caller /\ prev.ret = log.handle0
    /\ startedFrom[log.handle0] = 1

\* C10: a call with renew true that finds the cached future unresolved and a
\* flow in the slot starts a second future from that flow and installs it; the
\* replaced future keeps its request (an unresolved future still holds the
\* request it executed, or the error of building it); the cached handle is always
\* the future made last, and that is what a call returns; a future that resolved
\* to a token resolved to the token of its own exchange.
C10_ForceWhileInFlight ==
    /\ ( /\ log.valid /\ log.renew
         /\ log.peek.tag = "None" /\ log.slot0.kind # "None" ) =>
           /\ log.rule = "stored"
           /\ log.used = log.slot0
           /\ StartedNew
    /\ constructed = "Ok" => bearer_token = Len(futs)
    /\ log.done => log.ret = bearer_token
    /\ \A h \in 1..Len(futs) :
           /\ (futs[h].variant = "Future" /\ futs[h].shared.tag = "None") =>
                  /\ futs[h].future = futs[h].executed
                  /\ (futs[h].error = "None") = futs[h].executed
           /\ futs[h].shared.tag = "Ok" => futs[h].shared.token.access_token = h

C10_Witness ==
    /\ log.done /\ log.renew /\ log.peek.tag = "None"
    /\ log.handle0 \in held /\ log.ret # log.handle0
    /\ futs[log.handle0].future /\ futs[log.handle0].shared.tag = "None"
    /\ futs[log.ret].future /\ futs[log.ret].shared.tag = "None"

\* C11: a future, once made, keeps its variant, its flow and whether a request
\* was executed for it (one request at most, executed when it was made); its
\* request is never put back once taken; its Shared cell is filled once, by a
\* poll of a clone that was handed out, at which point the inner future is
\* drained; and once the cell is filled the future and the value every clone
\* reads from the cell never change again.
C11_ResolvesOnce ==
    [][\A h \in 1..Len(futs) :
          /\ futs'[h].variant = futs[h].variant
          /\ futs'[h].flow = futs[h].flow
          /\ futs'[h].executed = futs[h].executed
          /\ futs[h].future => futs[h].executed
          /\ futs'[h].future => futs[h].future
          /\ futs[h].shared.tag # "None" => futs'[h] = futs[h]
          /\ (futs[h].shared.tag = "None" /\ futs'[h].shared.tag # "None") =>
                 /\ h \in held
                 /\ ~futs'[h].future
                 /\ futs'[h].error = "None"
                 /\ ~futs'[h].fixed.present]_vars

C11_Witness ==
    \E h \in 1..Len(futs) :
        /\ futs[h].executed /\ futs[h].shared.tag # "None"
        /\ log.done /\ log.ret = h
        /\ prev.ret = h /\ prev.caller # 0 /\ prev.caller # log.caller

\* C12: a caller that is past the two lock() calls holds both Mutexes, so at most
\* one caller is evaluating the match or restoring the slot, and every other
\* caller is then outside the call or waiting for a lock; a caller waiting for the
\* second Mutex holds the first; and an Authenticator made with a Password flow
\* shows that flow in the slot to every call that evaluates the match, never the
\* empty slot of a call that has taken the flow and not yet put it back.
C12_ObtainIsAtomic ==
    /\ \A c \in Callers :
           /\ pc[c] \in {"match", "restore", "return"} =>
                  /\ auth_flow_lock = c /\ bearer_token_lock = c
                  /\ \A d \in Callers \ {c} : pc[d] = "idle"
           /\ pc[c] = "lock_bearer_token" => auth_flow_lock = c
    /\ (log.valid /\ arg_flow = Password) => log.slot0 = Password
    /\ (auth_flow # NewKeeps(arg_flow)) =>
           \E c \in Callers : pc[c] = "restore" /\ auth_flow_lock = c

C12_Witness ==
    \E c \in Callers :
        /\ pc[c] = "restore" /\ local[c].auth_flow = Password /\ auth_flow = NoFlow
        /\ auth_flow_lock = c /\ bearer_token_lock = c
        /\ prev.caller # 0 /\ prev.caller # c

\* C13: a call that finds the cached future resolved to an error makes no future
\* and returns the cached handle if renew is false, whatever the slot holds, and
\* also if renew is true and the slot is empty; with renew true and a flow in the
\* slot it makes the new future from that flow and installs it.
C13_FailureIsCached ==
    /\ (log.valid /\ log.peek.tag = "Err" /\ ~log.renew) => NoOp
    /\ (log.valid /\ log.peek.tag = "Err" /\ log.renew /\ log.slot0 = NoFlow) => NoOp
    /\ (log.valid /\ log.peek.tag = "Err" /\ log.renew /\ log.slot0 # NoFlow) =>
           /\ log.rule = "stored"
           /\ log.used = log.slot0
           /\ StartedNew

C13_Witness ==
    /\ log.done /\ ~log.renew /\ log.peek.tag = "Err"
    /\ log.slot0 = Password
    /\ log.ret = log.handle0 /\ Len(futs) = log.nfuts0
    /\ futs[log.ret].shared.tag = "Err"

\* C14: a caller inside bearer_token is never waiting for a future: after the
\* first lock() its next step is enabled in every reachable state, whatever the
\* state of any future (making a future needs room under MaxFutures in the
\* model); its steps run lock, lock, match, restore (in a stored-flow arm),
\* return, so a call is at most five steps; and a caller outside the call holds
\* neither Mutex.
CallSteps ==
    { <<"idle", "lock_bearer_token">>, <<"lock_bearer_token", "match">>,
      <<"match", "restore">>, <<"match", "return">>, <<"restore", "return">>,
      <<"return", "idle">> }

C14_GuardNeverAwaits ==
    /\ [](\A c \in Callers :
            /\ pc[c] = "lock_bearer_token" => ENABLED LockBearerToken(c)
            /\ (pc[c] = "match" /\ Len(futs) < MaxFutures) => ENABLED MatchArm(c)
            /\ pc[c] = "restore" => ENABLED Restore(c)
            /\ pc[c] = "return" => ENABLED Return(c)
            /\ pc[c] = "idle" => auth_flow_lock # c /\ bearer_token_lock # c)
    /\ [][\A c \in Callers :
            pc'[c] # pc[c] => <<pc[c], pc'[c]>> \in CallSteps]_vars

C14_Witness ==
    /\ log.done /\ log.rule = "stored"
    /\ auth_flow_lock = 0 /\ bearer_token_lock = 0
    /\ \A c \in Callers : pc[c] = "idle"
    /\ futs[log.ret].executed /\ futs[log.ret].shared.tag = "None"

JustConstructed ==
    /\ \A c \in Callers : pc[c] = "idle"
    /\ ~log.valid /\ ~log.done /\ prev = NoPrev /\ held = {}

C17_NewWithFlowOnly ==
    (~arg_token.present /\ arg_flow # NoFlow) =>
        /\ constructed = "Ok"
        /\ futs[1].variant = "Future" /\ futs[1].flow = arg_flow
        /\ JustConstructed =>
               /\ Len(futs) = 1 /\ bearer_token = 1
               /\ futs[1].shared = Unresolved
               /\ futs[1].future = futs[1].executed
               /\ HttpCalls = (IF futs[1].executed THEN 1 ELSE 0)
               /\ auth_flow = (IF arg_flow = Password THEN Password ELSE NoFlow)

C17_Witness ==
    /\ JustConstructed /\ now = 1
    /\ ~arg_token.present /\ arg_flow = Code
    /\ auth_flow = NoFlow
    /\ Len(futs) = 1 /\ futs[1].executed /\ futs[1].future

\* C18: Authenticator::new returns the MissingAuthFlow error exactly if it is
\* given neither a token nor a flow; then there is no future, no request and no
\* Authenticator to call; otherwise it returns an Authenticator whose cached
\* handle is a future.
C18_NewFailsWithoutBoth ==
    /\ constructed \in {"Ok", "MissingAuthFlow"}
    /\ (constructed = "MissingAuthFlow") <=> (~arg_token.present /\ arg_flow = NoFlow)
    /\ constructed = "MissingAuthFlow" =>
           /\ futs = <<>> /\ HttpCalls = 0 /\ bearer_token = 0
           /\ auth_flow = NoFlow
           /\ JustConstructed /\ auth_flow_lock = 0 /\ bearer_token_lock = 0
    /\ constructed = "Ok" =>
           /\ Len(futs) >= 1
           /\ bearer_token \in 1..Len(futs)

C18_Witness ==
    /\ constructed = "MissingAuthFlow"
    /\ ~arg_token.present /\ arg_flow = NoFlow
    /\ Len(futs) = 0

\* C19 as stated: in an Authenticator made from a Code flow alone, a call with
\* renew true that finds the first future resolved to an expired token makes no
\* future and returns that first handle.
C19_Original ==
    ( /\ arg_flow = Code /\ ~arg_token.present
      /\ log.valid /\ log.renew
      /\ log.handle0 = 1 /\ log.peek.tag = "Ok" /\ log.expired ) => NoOp

\* C19 (amended): in an Authenticator made from a Code flow alone, a call with
\* renew true that finds the first future resolved to an expired token without
\* a refresh token makes no future and returns that first handle; if the token
\* has a refresh token the call makes a RefreshToken future instead; and at most
\* one future is ever made from a Code flow.
C19_CodeIsUsedOnce ==
    /\ ( /\ arg_flow = Code /\ ~arg_token.present
         /\ log.valid /\ log.renew
         /\ log.handle0 = 1 /\ log.peek.tag = "Ok" /\ log.expired ) =>
           /\ log.slot0 = NoFlow
           /\ ~is_renewable(log.peek.token) => NoOp
           /\ is_renewable(log.peek.token) =>
                  /\ log.rule = "refresh"
                  /\ log.used = RefreshToken(log.peek.token.refresh_token)
                  /\ StartedNew
    /\ Cardinality({h \in 1..Len(futs) : futs[h].flow = Code}) <= 1

C19_Witness ==
    /\ arg_flow = Code /\ ~arg_token.present
    /\ log.done /\ log.renew
    /\ log.handle0 = 1 /\ log.peek.tag = "Ok" /\ log.expired
    /\ ~is_renewable(log.peek.token)
    /\ log.ret = 1 /\ Len(futs) = 1

\* C20: with the endpoint giving the answer r to every request, every future
\* whose request was executed and that has resolved holds: NetworkError if the
\* transport failed, whatever status and body; else UnsuccessfulResponse with
\* r's status if the status is not 2xx, whatever the body (401 gives
\* UnsuccessfulResponse(401)); else InvalidResponse if the body does not parse;
\* else the token parsed from the body, created at the time of the poll.  A
\* future whose request could not be built resolves to InvalidRequest.
C20_ClassificationOrder ==
    \A h \in 1..Len(futs) :
        LET r == endpoint.response
            v == futs[h].shared
        IN  /\ (futs[h].executed /\ v.tag # "None") =>
                   /\ ~r.transport_ok =>
                          v.tag = "Err" /\ v.error = "NetworkError" /\ v.status = 0
                   /\ (r.transport_ok /\ r.status \notin 200..299) =>
                          /\ v.tag = "Err" /\ v.error = "UnsuccessfulResponse"
                          /\ v.status = r.status
                   /\ (r.transport_ok /\ r.status \in 200..299 /\ ~r.parses) =>
                          v.tag = "Err" /\ v.error = "InvalidResponse" /\ v.status = 0
                   /\ (r.transport_ok /\ r.status \in 200..299 /\ r.parses) =>
                          /\ v.tag = "Ok" /\ v.token.present
                          /\ v.token.expires_in = r.expires_in
                          /\ is_renewable(v.token) = r.refreshable
                          /\ v.token.created_at <= now
            /\ (futs[h].variant = "Future" /\ ~futs[h].executed /\ v.tag # "None") =>
                   v.tag = "Err" /\ v.error = "InvalidRequest"

C20_Witness ==
    /\ endpoint.scripted
    /\ endpoint.response.transport_ok /\ endpoint.response.parses
    /\ endpoint.response.status = 401
    /\ log.done /\ log.ret = 1 /\ log.peek = UnsuccessfulResponse(401)
    /\ futs[1].executed /\ futs[1].shared = UnsuccessfulResponse(401)

\* C21: a BearerTokenFuture made from a token gives that token on its first
\* poll; and for every BearerTokenFuture, once a poll has returned the terminal
\* value (the token or an error), every later poll of it panics: the value is
\* never returned a second time.
C21_PolledAgainIsAFault ==
    result.op = "poll" =>
        /\ (result.token.present /\ Len(result.polls) >= 1) =>
               result.polls[1] = ResolvedOk(result.token)
        /\ \A i \in DOMAIN result.polls : \A j \in DOMAIN result.polls :
               (i < j /\ result.polls[i].tag \in {"Ok", "Err"}) =>
                   result.polls[j] = Panicked

C21_Witness ==
    /\ result.op = "poll" /\ result.token.present
    /\ Len(result.polls) >= 2
    /\ result.polls[1].tag = "Ok" /\ result.polls[2].tag = "Panic"

\* C22 as stated: whatever expires_in is, 0 included, is_expired is false when
\* no time has passed since the token was made, and it is true exactly when the
\* time passed is at least expires_in seconds.
C22_Original ==
    result.op = "is_expired" =>
        /\ result.at = arg_token.created_at => ~result.ret
        /\ result.ret <=>
               (result.at - arg_token.created_at >= arg_token.expires_in * resolution)

\* C22: is_expired is true exactly when the time passed since the token was
\* made is at least expires_in seconds (the boundary counts as expired); so it
\* is false right after the token is made when expires_in > 0, and true from
\* the start when expires_in = 0; once it has been true it is true at every
\* later call.
C22_ExpiresAtTtl ==
    /\ [](result.op = "is_expired" =>
            /\ result.ret <=>
                 (result.at - arg_token.created_at >= arg_token.expires_in * resolution)
            /\ (result.at = arg_token.created_at /\ arg_token.expires_in > 0)
                 => ~result.ret
            /\ arg_token.expires_in = 0 => result.ret)
    /\ [][(result.op = "is_expired" /\ result.ret /\ result'.op = "is_expired")
             => result'.ret]_vars

C22_Witness ==
    /\ result.op = "is_expired" /\ result.ret
    /\ resolution > 1 /\ arg_token.expires_in > 0
    /\ result.at - arg_token.created_at = arg_token.expires_in * resolution

\* C23: whatever calls were made on a ScopeSet (new, default, insert, remove,
\* take, clear, collect, deserialize), if it contains All it contains nothing
\* else.
C23_AllIsAlone ==
    contains(scope_set, "All") => scope_set = {"All"}

\* C24: insert(All) leaves {All} and returns true whatever the set held, {All}
\* included; insert of another scope returns true exactly when the set did not
\* hold it, and adds it.
C24_InsertAll ==
    result.op = "insert" =>
        /\ result.arg = "All" => (scope_set = {"All"} /\ result.ret)
        /\ result.arg # "All" =>
               /\ result.ret <=> (result.arg \notin result.before)
               /\ scope_set = result.before \cup {result.arg}

C24_Witness ==
    /\ result.op = "insert" /\ result.arg = "All"
    /\ {"Account", "Identity"} \subseteq result.before
    /\ scope_set = {"All"}

\* C25: the string a ScopeSet serializes to is the wire names of its members,
\* each once, in alphabetical (byte) order, with one space between two names
\* and none elsewhere ({Account, History, Identity} gives "account history
\* identity"); deserializing the string just serialized gives the same set; and
\* deserializing a string with a token that is no wire name fails.
CharOrder ==
    <<" ", "*", "A", "a", "b", "c", "d", "e", "f", "g", "h", "i", "j", "k", "l", "m",
      "n", "o", "p", "q", "r", "s", "t", "u", "v", "w", "x", "y", "z">>
Byte(ch) == CHOOSE i \in DOMAIN CharOrder : CharOrder[i] = ch
RECURSIVE LexLess(_, _)
LexLess(a, b) ==
    IF b = <<>> THEN FALSE
    ELSE IF a = <<>> THEN TRUE
    ELSE IF Head(a) # Head(b) THEN Byte(Head(a)) < Byte(Head(b))
    ELSE LexLess(Tail(a), Tail(b))
RECURSIVE SumLen(_)
SumLen(tokens) == IF tokens = <<>> THEN 0 ELSE Len(Head(tokens)) + SumLen(Tail(tokens))

C25_CanonicalRoundTrip ==
    /\ [](/\ result.op = "serialize" =>
               LET tokens == split_whitespace(result.str) IN
                 /\ { tokens[i] : i \in DOMAIN tokens } = { to_string[s] : s \in scope_set }
                 /\ Len(tokens) = Cardinality(scope_set)
                 /\ \A i \in 1..(Len(tokens) - 1) : LexLess(tokens[i], tokens[i + 1])
                 /\ Len(result.str) =
                      SumLen(tokens) + (IF tokens = <<>> THEN 0 ELSE Len(tokens) - 1)
                 /\ scope_set = {"Account", "History", "Identity"} =>
                      result.str = <<"a", "c", "c", "o", "u", "n", "t", " ",
                                     "h", "i", "s", "t", "o", "r", "y", " ",
                                     "i", "d", "e", "n", "t", "i", "t", "y">>
          /\ (/\ result.op = "deserialize"
              /\ \E i \in DOMAIN split_whitespace(result.str) :
                    \A s \in Scope : to_string[s] # split_whitespace(result.str)[i])
               => ~result.ret)
    /\ [][(result.op = "serialize" /\ result'.op = "deserialize"
           /\ result'.str = result.str)
             => (result'.ret /\ scope_set' = scope_set)]_vars

C25_Witness ==
    /\ result.op = "deserialize" /\ result.ret
    /\ result.str = <<"a", "c", "c", "o", "u", "n", "t", " ",
                      "h", "i", "s", "t", "o", "r", "y", " ",
                      "i", "d", "e", "n", "t", "i", "t", "y">>
    /\ scope_set = {"Account", "History", "Identity"}

\* C26: a token whose scope contains All matches every scope asked for; one
\* whose scope contains the scope asked for matches it; one whose scope
\* contains neither All nor the scope asked for does not match it.
C26_MatchesScope ==
    result.op = "matches_scope" =>
        /\ contains(result.before, "All") => result.ret
        /\ contains(result.before, result.arg) => result.ret
        /\ (~contains(result.before, "All") /\ ~contains(result.before, result.arg))
             => ~result.ret

\* C27: every exchange is made with a form body that serialized, and the body
\* of a Code flow is grant_type=authorization_code with code and redirect_uri,
\* that of a Password flow grant_type=password with username, password and
\* scope, that of a RefreshToken flow grant_type=refresh_token with
\* refresh_token = the token.
C27_FormBody ==
    \A h \in 1..Len(futs) :
        futs[h].variant = "Future" =>
            LET body == form(futs[h].flow)
                keys == { body.keys[i] : i \in DOMAIN body.keys }
            IN  /\ futs[h].executed
                /\ body.ok
                /\ futs[h].flow.kind = "Code" =>
                     /\ body.grant_type = "authorization_code"
                     /\ {"grant_type", "code", "redirect_uri"} \subseteq keys
                /\ futs[h].flow.kind = "Password" =>
                     /\ body.grant_type = "password"
                     /\ keys = {"grant_type", "username", "password", "scope"}
                /\ futs[h].flow.kind = "RefreshToken" =>
                     /\ body.grant_type = "refresh_token"
                     /\ keys = {"grant_type", "refresh_token"}
                     /\ body.refresh_token = futs[h].flow.token

\* C28: build is Err(MissingClientId) when client_id is not set, whatever else
\* is; else Err(MissingRedirectUri) when redirect_uri is not set; else
\* Err(MissingState) when state is not set; and Ok exactly when all three are.
C28_BuildRequires ==
    result.op = "build" =>
        LET b == result.before IN
          /\ b.client_id = 0 => result.out.error = "MissingClientId"
          /\ (b.client_id # 0 /\ b.redirect_uri = 0) =>
                 result.out.error = "MissingRedirectUri"
          /\ (b.client_id # 0 /\ b.redirect_uri # 0 /\ b.state = 0) =>
                 result.out.error = "MissingState"
          /\ result.out.ok <=> (b.client_id # 0 /\ b.redirect_uri # 0 /\ b.state # 0)
          /\ result.out.ok <=> (result.out.error = "None")

C28_Witness ==
    /\ result.op = "build"
    /\ result.before.client_id = 0 /\ result.before.redirect_uri = 0
    /\ result.before.state # 0
    /\ result.out.error = "MissingClientId"

\* C29: a built URL has the duration parameter exactly when its response_type
\* is code: with Token it has none even if a duration was set, with Code it has
\* the duration that was set, temporary if none was.
C29_DurationOnlyForCode ==
    (result.op = "build" /\ result.out.ok) =>
        LET b == result.before
            keys == { result.out.keys[i] : i \in DOMAIN result.out.keys }
        IN  /\ ("duration" \in keys) <=> (result.out.response_type = "code")
            /\ b.response_type = "Token" =>
                 ("duration" \notin keys /\ result.out.response_type = "token")
            /\ b.response_type = "Code" =>
                 /\ result.out.response_type = "code"
                 /\ result.out.duration =
                      (IF b.duration = "Permanent" THEN "permanent" ELSE "temporary")

C29_Witness ==
    /\ result.op = "build" /\ result.out.ok
    /\ result.before.response_type = "Token" /\ result.before.duration = "Permanent"
    /\ \A i \in DOMAIN result.out.keys : result.out.keys[i] # "duration"

\* C30: a future is made only by the match step of a bearer_token call, one at a
\* time, and a call takes that step once (it comes to it from its two lock()
\* steps and leaves it); a step in which a future resolves, to a token or to an
\* error, leaves the cached handle and the slot as they are and makes no future.
\* So no more futures are ever made than one in new and one per call.
C30_NeverRetries ==
    /\ [](JustConstructed => Len(futs) <= 1)
    /\ [][/\ Len(futs') # Len(futs) =>
               /\ Len(futs') = Len(futs) + 1
               /\ \E c \in Callers : pc[c] = "match" /\ pc'[c] \in {"restore", "return"}
          /\ \A c \in Callers :
               /\ (pc[c] # "match" /\ pc'[c] = "match") => pc[c] = "lock_bearer_token"
               /\ (pc[c] # "lock_bearer_token" /\ pc'[c] = "lock_bearer_token")
                    => pc[c] = "idle"
               /\ (pc[c] = "match" /\ pc'[c] # "match") => pc'[c] \in {"restore", "return"}
               /\ (pc[c] = "restore" /\ pc'[c] # "restore") => pc'[c] = "return"
               /\ (pc[c] = "return" /\ pc'[c] # "return") => pc'[c] = "idle"
          /\ (\E h \in 1..Len(futs) :
                 futs[h].shared.tag = "None" /\ futs'[h].shared.tag # "None") =>
               /\ Len(futs') = Len(futs)
               /\ bearer_token' = bearer_token
               /\ auth_flow' = auth_flow]_vars

C30_Witness ==
    /\ Len(futs) = 1 /\ bearer_token = 1
    /\ futs[1].executed /\ futs[1].shared = ResolvedErr("NetworkError")
    /\ auth_flow = Password
    /\ log.done /\ ~log.renew /\ log.peek.tag = "Err"

\* C31: a future made from a flow whose form body does not serialize is still
\* made and installed as the cached handle, but no request is executed for it:
\* it holds the InvalidRequest error instead; its first poll, whatever the
\* endpoint would do, gives that error, the cell of its Shared is filled with it
\* and never changes again, and a later call with renew false returns the same
\* handle, as with any other failure.
C31_UnbuiltRequest ==
    /\ []( /\ \A h \in 1..Len(futs) :
               (futs[h].variant = "Future" /\ ~form(futs[h].flow).ok) =>
                   /\ ~futs[h].executed /\ ~futs[h].future
                   /\ futs[h].shared \in {Unresolved, ResolvedErr("InvalidRequest")}
                   /\ (futs[h].shared = Unresolved =>
                          /\ futs[h].error = "InvalidRequest"
                          /\ \A ready \in BOOLEAN, r \in Answers(endpoint) :
                                 poll(futs[h], h, ready, r, now).out
                                     = ResolvedErr("InvalidRequest"))
           /\ (log.valid /\ log.rule # "none" /\ ~form(log.used).ok) =>
                   /\ StartedNew
                   /\ HttpCalls = Cardinality({h \in 1..log.nfuts0 : futs[h].executed})
           /\ (log.valid /\ ~log.renew /\ log.peek = ResolvedErr("InvalidRequest")) =>
                   NoOp)
    /\ [][\A h \in 1..Len(futs) :
              (futs[h].variant = "Future" /\ ~form(futs[h].flow).ok
                 /\ futs'[h] # futs[h]) =>
                  /\ futs[h].shared = Unresolved
                  /\ futs'[h].shared = ResolvedErr("InvalidRequest")
                  /\ futs'[h].error = "None"]_vars

C31_Witness ==
    /\ log.done /\ ~log.renew /\ log.peek = ResolvedErr("InvalidRequest")
    /\ futs[log.ret].flow.kind = "RefreshToken" /\ ~futs[log.ret].executed
    /\ prev.ret = log.ret /\ prev.caller # 0 /\ prev.caller # log.caller
    /\ Len(futs) = log.nfuts0

\* C32: when a call returns, with renew false or true, the slot holds what it
\* held when the call evaluated the match (empty if it was empty, the stored
\* Password flow if it held one); so whenever no call holds the auth_flow lock
\* the slot holds what Authenticator::new put there, and every call finds that.
C32_SlotIsConstant ==
    /\ \A renew \in BOOLEAN :
           (log.done /\ log.renew = renew) =>
               /\ log.slot1 = log.slot0
               /\ auth_flow = log.slot0
    /\ (constructed = "Ok" /\ auth_flow_lock = 0) => auth_flow = NewKeeps(arg_flow)
    /\ log.valid => log.slot0 = NewKeeps(arg_flow)

C32_Witness ==
    /\ log.done /\ log.renew /\ log.rule = "stored"
    /\ log.slot0 = Password /\ log.used = Password
    /\ auth_flow = Password /\ auth_flow_lock = 0
    /\ prev.caller # 0 /\ prev.caller # log.caller

\* The slot is empty, no call is between taking a flow and putting it back, and
\* the cached future has resolved to an error or to a token without a refresh
\* token.
Terminal ==
    /\ constructed = "Ok"
    /\ auth_flow = NoFlow
    /\ \A c \in Callers : pc[c] # "restore"
    /\ \/ peek(futs[bearer_token]).tag = "Err"
       \/ /\ peek(futs[bearer_token]).tag = "Ok"
          /\ ~is_renewable(peek(futs[bearer_token]).token)

\* C33: from a state where the slot is empty and the cached future has resolved
\* to an error or to a token without a refresh token, no step makes a future or
\* changes the cached handle or the value it resolved to, and the next state is
\* such a state again, so this holds forever; a call that finds this, with renew
\* false or true, makes no future and returns the cached handle.  An
\* Authenticator made from a Code or RefreshToken flow alone whose first future
\* failed is in such a state.
C33_TerminalIsForever ==
    /\ [][Terminal =>
             /\ Terminal'
             /\ bearer_token' = bearer_token
             /\ Len(futs') = Len(futs)
             /\ futs'[bearer_token] = futs[bearer_token]
             /\ auth_flow' = NoFlow]_vars
    /\ []( /\ \A renew \in BOOLEAN :
               ( /\ log.valid /\ log.renew = renew /\ log.slot0 = NoFlow
                 /\ \/ log.peek.tag = "Err"
                    \/ log.peek.tag = "Ok" /\ ~is_renewable(log.peek.token) ) => NoOp
           /\ ( /\ constructed = "Ok" /\ ~arg_token.present
                 /\ arg_flow.kind \in {"Code", "RefreshToken"}
                 /\ futs[1].shared.tag = "Err" ) =>
                   /\ Terminal
                   /\ Len(futs) = 1
                   /\ log.done => log.ret = 1 )

C33_Witness ==
    /\ arg_flow = Code /\ ~arg_token.present
    /\ Terminal /\ futs[1].executed /\ futs[1].shared.tag = "Err"
    /\ log.done /\ log.renew /\ log.ret = 1
    /\ prev.ret = 1 /\ prev.caller # 0 /\ prev.caller # log.caller
    /\ now = MaxTime

\* C34: no future of an Authenticator is ever polled after it has completed:
\* the panic of BearerTokenFuture::poll is never reached, for the future made
\* from a given token as for the others, however many clones of a handle are
\* held and however often they are polled; a poll of a clone whose Shared cell
\* is filled leaves the future as it is, although the future is drained by then
\* and a poll of it would panic.
C34_NeverPolledAgain ==
    /\ [](\A h \in 1..Len(futs) :
             /\ ~futs[h].panicked
             /\ futs[h].shared.tag # "None" =>
                    \A ready \in BOOLEAN, r \in Answers(endpoint) :
                        poll(futs[h], h, ready, r, now).out = Panicked)
    /\ [][\A h \in 1..Len(futs) :
              futs[h].shared.tag # "None" => futs'[h] = futs[h]]_vars

C34_Witness ==
    /\ arg_token.present /\ futs[1].variant = "Fixed"
    /\ futs[1].shared = ResolvedOk(arg_token) /\ ~futs[1].fixed.present
    /\ 1 \in held /\ bearer_token = 1
    /\ log.done /\ log.ret = 1
    /\ prev.ret = 1 /\ prev.caller # 0 /\ prev.caller # log.caller
    /\ ENABLED Poll(1)

\* C36: a call makes at most one future and executes at most one request; the
\* handle it returns is a clone of the handle that is cached when it drops the
\* guards, and a clone of nothing else is handed out in that step; if the call
\* made a future, the handle returned is that of the new future, made from the
\* flow the call used, and not the handle the call found; if it made none, it is
\* the handle the call found.
C36_ReturnsWhatIsCached ==
    /\ []( /\ log.valid =>
                /\ Len(futs) - log.nfuts0 \in {0, 1}
                /\ Cardinality({h \in (log.nfuts0 + 1)..Len(futs) : futs[h].executed}) <= 1
                /\ (Len(futs) = log.nfuts0 + 1) = (log.rule # "none")
           /\ log.done =>
                /\ log.ret = log.handle1
                /\ log.ret = bearer_token
                /\ log.ret \in held
           /\ (log.done /\ log.rule # "none") =>
                /\ log.ret = log.nfuts0 + 1
                /\ log.ret # log.handle0
                /\ futs[log.ret].flow = log.used
           /\ (log.done /\ log.rule = "none") => log.ret = log.handle0 )
    /\ [][\A c \in Callers :
              (pc[c] = "return" /\ pc'[c] = "idle") =>
                  /\ held' = held \cup {bearer_token}
                  /\ bearer_token' = bearer_token
                  /\ auth_flow_lock = c /\ bearer_token_lock = c
                  /\ auth_flow_lock' = 0 /\ bearer_token_lock' = 0]_vars

C36_Witness ==
    /\ log.done /\ log.renew /\ log.rule = "stored"
    /\ log.handle0 = 1 /\ log.ret = 2 /\ bearer_token = 2
    /\ held = {1, 2}
    /\ futs[1].shared.tag = "None" /\ futs[2].executed
    /\ prev.ret = 1 /\ prev.caller # 0

\* The case in which the two drafts of the policy differ.
ForcedOnFreshRefreshable(p, renew, t) ==
    renew /\ p.tag = "Ok" /\ ~is_expired(p.token, t) /\ is_renewable(p.token)

\* C38: in every reachable state, for both values of renew and whatever the
\* slot holds, the match of auth/authentication.rs and that of
\* reddit/auth/authentication.rs decide alike (same arm, same flow used, same
\* slot left) on what is cached, except with renew true on a resolved token that
\* is not expired and has a refresh token: there the first uses the flow in the
\* slot, or does nothing if the slot is empty, and the second makes a
\* RefreshToken future and leaves the slot.  A call decides as Decision says.
C38_DraftsAgreeButOnce ==
    /\ []( constructed = "Ok" =>
             \A renew \in BOOLEAN, slot \in ArgFlows \cup {auth_flow} :
                 LET p == peek(futs[bearer_token])
                     a == Decision("auth", p, slot, renew, now)
                     r == Decision("reddit", p, slot, renew, now)
                 IN  IF ForcedOnFreshRefreshable(p, renew, now)
                     THEN /\ a.rule = (IF slot = NoFlow THEN "none" ELSE "stored")
                          /\ a.used = slot
                          /\ r.rule = "refresh"
                          /\ r.used = RefreshToken(p.token.refresh_token)
                          /\ r.slot1 = slot
                          /\ a # r
                     ELSE a = r )
    /\ [][\A c \in Callers :
              (pc[c] = "match" /\ pc'[c] # "match") =>
                  LET d == Decision(draft, peek(futs[bearer_token]), auth_flow,
                                    local[c].renew, now)
                  IN  /\ log'.rule = d.rule
                      /\ log'.used = d.used
                      /\ pc'[c] = "return" => auth_flow' = d.slot1
                      /\ pc'[c] = "restore" =>
                             (IF Restores(local'[c].auth_flow)
                              THEN local'[c].auth_flow ELSE auth_flow') = d.slot1]_vars

C38_Witness ==
    /\ draft = "reddit" /\ log.done /\ log.renew
    /\ ForcedOnFreshRefreshable(log.peek, TRUE, now)
    /\ log.slot0 = Password /\ log.rule = "refresh"
    /\ futs[log.ret].flow.kind = "RefreshToken" /\ auth_flow = Password
    /\ Decision("auth", log.peek, log.slot0, TRUE, now).rule = "stored"

\* C39: a RawHttpFuture (and an HttpResponseFuture) is in one of two phases,
\* waiting for the head and then reading the body, and never goes back; it is
\* Ready only from the body phase, once every chunk has been read, with the
\* status and headers the head carried and the whole body (and the Instant, in
\* HttpResponseFuture); a poll that is NotReady leaves it in the phase it has
\* come to, with the status and headers captured so far, so that the next poll
\* does not panic; a poll that is Err or Ready leaves neither inner future, and
\* every poll after it panics.
C39_TwoPhases ==
    result.op = "http" =>
        LET polls == result.polls
            phases == result.phases
            wire == result.wire
        IN  /\ \A i \in DOMAIN polls :
                 /\ polls[i].tag = "Ready" =>
                        /\ polls[i] = HttpReady(fut.instant, wire.status, wire.headers,
                                                wire.body)
                        /\ phases[i] = "done"
                        /\ i > 1 => phases[i - 1] \in {"head", "body"}
                 /\ polls[i].tag = "NotReady" =>
                        /\ phases[i] \in {"head", "body"}
                        /\ i > 1 => phases[i - 1] \in {"head", phases[i]}
                        /\ i < Len(polls) => polls[i + 1].tag # "Panic"
                 /\ polls[i].tag = "Err" =>
                        /\ phases[i] = "done"
                        /\ i > 1 => phases[i - 1] \in {"head", "body"}
                 /\ polls[i].tag \in {"Ready", "Err"} =>
                        \A j \in DOMAIN polls : j > i => polls[j] = HttpPanic
                 /\ polls[i].tag = "Panic" =>
                        /\ i > 1
                        /\ polls[i - 1].tag \in {"Ready", "Err", "Panic"}
            /\ Phase(fut) = "body" =>
                 /\ fut.status = wire.status /\ fut.headers = wire.headers
                 /\ fut.read <= wire.body
            /\ Phase(fut) = "head" => fut.status = 0 /\ fut.headers = 0
            /\ fut.panicked = (\E i \in DOMAIN polls : polls[i].tag = "Panic")

C39_Witness ==
    /\ result.op = "http" /\ result.wire.body = MaxChunks
    /\ Len(result.polls) = 4
    /\ result.polls[1].tag = "NotReady" /\ result.phases[1] = "head"
    /\ result.polls[2].tag = "NotReady" /\ result.phases[2] = "body"
    /\ result.polls[3].tag = "Ready" /\ result.polls[3].body = MaxChunks
    /\ result.polls[4].tag = "Panic"

\* C35: a thread holds the bearer_token Mutex only while it holds the auth_flow
\* Mutex, and holds neither outside a call or while it waits for the first; and
\* whatever the other threads do, a thread that waits for the auth_flow Mutex
\* gets it, a thread inside a call comes back out of it, and a Mutex that is
\* held is released.
C35_NoCallWaitsForever ==
    /\ [](\A c \in Callers :
             /\ bearer_token_lock = c => auth_flow_lock = c
             /\ pc[c] \in {"idle", "lock_auth_flow"} =>
                    (auth_flow_lock # c /\ bearer_token_lock # c)
             /\ pc[c] \in {"match", "restore", "return"} => bearer_token_lock = c
             /\ pc[c] = "lock_bearer_token" =>
                    (auth_flow_lock = c /\ bearer_token_lock = 0))
    /\ \A c \in Callers : (pc[c] = "lock_auth_flow") ~> (auth_flow_lock = c)
    /\ \A c \in Callers : (pc[c] # "idle") ~> (pc[c] = "idle")
    /\ (auth_flow_lock # 0) ~> (auth_flow_lock = 0 /\ bearer_token_lock = 0)

C35_Witness ==
    /\ result.op = "calls" /\ result.calls = MaxCalls
    /\ \A c \in Callers : pc[c] = "idle"
    /\ auth_flow_lock = 0 /\ bearer_token_lock = 0
    /\ log.done /\ log.rule = "stored"
    /\ prev.caller # 0 /\ prev.caller # log.caller

\* C37: a handle that was handed out and keeps being polled, its request
\* completing at some point, resolves to a token or to an error; a future is
\* resolved only if a clone of its handle was handed out, and it resolves only
\* in a poll of such a clone, so peek shows a future as resolved only after a
\* clone was polled to completion; and a call with renew false that finds the
\* cached future unresolved makes no future and returns the cached handle.
C37_PolledHandleResolves ==
    /\ \A h \in 1..MaxFutures :
           (h \in held) ~> (h \in held /\ futs[h].shared.tag \in {"Ok", "Err"})
    /\ [](\A h \in 1..Len(futs) :
             /\ futs[h].shared.tag # "None" => h \in held
             /\ h \notin held => peek(futs[h]) = Unresolved)
    /\ []((log.valid /\ ~log.renew /\ log.peek.tag = "None") =>
             /\ NoOp
             /\ log.done => (log.ret = log.handle0 /\ Len(futs) = log.nfuts0))
    /\ [][\A h \in 1..Len(futs) :
              (futs[h].shared.tag = "None" /\ futs'[h].shared.tag # "None") =>
                  /\ h \in held
                  /\ futs'[h].shared.tag \in {"Ok", "Err"}
                  /\ \E ready \in BOOLEAN, r \in Answers(endpoint) :
                         futs'[h].shared = poll(futs[h], h, ready, r, now).out]_vars

C37_Witness ==
    /\ result.op = "calls" /\ result.calls = MaxCalls
    /\ log.done /\ ~log.renew /\ log.peek.tag = "None"
    /\ log.handle0 = 2 /\ log.ret = 2 /\ Len(futs) = 2
    /\ held = {2}
    /\ futs[1].shared.tag = "None" /\ futs[1].executed
    /\ futs[2].shared.tag = "Ok" /\ futs[2].executed

====
